---- MODULE Spec2Model ----
(***************************************************************************)
(* The realtime channel clients of the desktop backend:                    *)
(*   RealtimeClient      (src-tauri/src/realtime.rs, WebRTC signaling)     *)
(*   ChatRealtimeClient  (src-tauri/src/chat_realtime.rs, chat)            *)
(* and the command layer that owns the signaling sender                    *)
(*   (src-tauri/src/commands/signaling.rs).                                *)
(*                                                                         *)
(* One client object is modelled under arbitrary calls of its public       *)
(* methods.  A successful transport open creates the connection g with its *)
(* socket, read task, write task and outgoing queues.  `facade` selects    *)
(* which of the two clients a behaviour is about; the two clients share no *)
(* state.                                                                  *)
(*                                                                         *)
(* The TTL cache (src-tauri/src/cache.rs) is modelled with an integer      *)
(* clock in seconds: MeetingCache, MessageCache and PresenceCache, each    *)
(* behind its own lock, and the commands that write to them.               *)
(*                                                                         *)
(* The wire format of RealtimeMessage is modelled by what serde writes and  *)
(* reads: a JSON object whose key for `reference` is "ref".                *)
(*                                                                         *)
(* Six specifications share the actions:                                   *)
(*   Spec         the clients with their send operations and write tasks,  *)
(*                with the fair queue of the chat client's RwLock,         *)
(*   InboundSpec  the clients with their read tasks, the broadcast channel *)
(*                and the forwarder, the events emitted and the presence   *)
(*                store they update,                                       *)
(*   RejoinSpec   one client connected twice,                              *)
(*   CacheSpec    the cache alone under its operations and the clock,      *)
(*   AppSpec      the calendar and cache commands around the meetings      *)
(*                store: login and logout, the store's writers and the     *)
(*                statistics command with the read guards it holds,        *)
(*   CodecSpec    the wire format alone.                                   *)
(***************************************************************************)
EXTENDS Integers, Sequences, FiniteSets, TLC

\* ------------------------------------------------------------------ bounds
\* Send operations (send_offer / broadcast_message / subscribe_to_conversation).
MaxSends == 2
\* Heartbeats transmitted per connection.
MaxHeartbeats == 1
\* Clock advances.
MaxTicks == 2
\* Cache set operations.
MaxSets == 2
\* Events the read task of a connection emits to the frontend.
MaxEmits == 1
\* Capacity of the mpsc queues, mpsc::channel(100) in the source, scaled down.
Capacity == 1

Msgs == 1..MaxSends

VARIABLES
    facade,          \* "signaling" (realtime.rs) or "chat" (chat_realtime.rs)
    access_token,    \* inner.access_token: "None" or a token
    state,           \* RealtimeClientInner.state (signaling)
    current_channel, \* RealtimeClientInner.current_channel (signaling)
    is_connected,    \* ChatRealtimeClientInner.is_connected (chat)
    message_tx,      \* inner.message_tx: 0 = None, g = sender of connection g
    realtime,        \* SignalingStateInner.realtime is Some
    signaling_tx,    \* SignalingStateInner.signaling_tx: 0 = None, g = sender of g
    sig_is_connected,\* SignalingStateInner.is_connected
    joinPc,          \* position of the join_channel / connect call in progress
    joinToken,       \* the access token that call cloned
    joinResult,      \* what the last join_channel / connect call returned
    nconn,           \* sockets opened so far
    readerPc,        \* per connection: read task "none" | "running" | "done"
    writerPc,        \* per connection: position of the write task
    outgoing,        \* per connection: outgoing_rx queue (SignalingMessage)
    internal,        \* per connection: internal_rx / message_rx queue
    sent,            \* per connection: every transmit the write task attempted
    enqLog,          \* per connection: the envelopes enqueued, in enqueue order
    nsend,           \* send operations started so far
    sendRes,         \* per send: "idle" | "waiting" | "Ok" | an error
    sendConn,        \* per send: the connection whose queue it addresses
    sendAt,          \* per send: what the caller could observe when it called
    joinedBy,        \* the envelope whose processing moved state to Joined
    emitted,         \* the events the read tasks emitted to the frontend, in order
    waited,          \* per connection: ms the write loop's select has been pending
    sinceHb,         \* per connection: ms since the last heartbeat (or loop entry),
                     \* counted up to the heartbeat interval
    now,             \* the clock (Instant::now), in seconds
    nticks,          \* clock advances so far
    nset,            \* cache set operations so far
    by_month,        \* MeetingCache.by_month: key -> CacheEntry<Vec<Meeting>>
    by_id,           \* MeetingCache.by_id: id -> CacheEntry<Meeting>
    upcoming,        \* MeetingCache.upcoming: <<>> = None, <<entry>> = Some
    by_conversation, \* MessageCache.by_conversation: id -> CacheEntry<Vec<MessageRow>>
    last_timestamp,  \* MessageCache.last_timestamp: id -> String
    by_user,         \* PresenceCache.by_user: id -> CacheEntry<PresenceInfo>
    team_members,    \* PresenceCache.team_members: <<>> = None, <<entry>> = Some
    cachePc,         \* position of the AppCache::invalidate_all / cleanup in progress
    written,         \* the slots set since the running invalidate_all began
    codec,           \* an envelope, the text it serializes to, what that text parses to
    write_waiters,   \* who is queued for the write lock of the chat client's inner
    signaling_rx,    \* per connection: the broadcast channel the read task sends
                     \* decoded messages on, and the forwarder that receives them
    app              \* the command layer around the cache: what its callers saw

vars == <<facade, access_token, state, current_channel, is_connected, message_tx,
          realtime, signaling_tx, sig_is_connected, joinPc, joinToken, joinResult,
          nconn, readerPc, writerPc, outgoing, internal, sent, enqLog, nsend,
          sendRes, sendConn, sendAt, joinedBy, emitted, waited, sinceHb, now, nticks,
          nset, by_month, by_id, upcoming, by_conversation, last_timestamp, by_user,
          team_members, cachePc, written, codec, write_waiters,
          signaling_rx, app>>

clientVars == <<state, current_channel, is_connected, message_tx>>
ownerVars == <<realtime, signaling_tx, sig_is_connected>>
joinVars == <<joinPc, joinToken, joinResult, nconn>>
taskVars == <<readerPc, writerPc>>
queueVars == <<outgoing, internal, enqLog>>
sendVars == <<nsend, sendRes, sendConn, sendAt>>
hbVars == <<waited, sinceHb>>
meetingVars == <<by_month, by_id, upcoming>>
messageVars == <<by_conversation, last_timestamp>>
presenceVars == <<by_user, team_members>>
storeVars == <<meetingVars, messageVars, presenceVars>>
cacheVars == <<now, nticks, nset, storeVars, cachePc, written>>
auxVars == <<codec, write_waiters, signaling_rx, app>>

\* --------------------------------------------------------------- facades
\* The signaling client: with its sends ("signaling"), with the events its
\* inbound traffic makes it emit ("session"), or with join_channel called a
\* second time on it ("rejoin").
SignalingClient == facade \in {"signaling", "session", "rejoin"}

\* The chat client: with its sends ("chat"), with the events it emits and the
\* presence store it updates ("presence"), or with connect called a second
\* time on it ("reconnect").
ChatClient == facade \in {"chat", "presence", "reconnect"}

\* connect_signaling and connect_chat build a client of their own for every
\* connection (signaling.rs 52-59, chat.rs 764-770): a client object opens one
\* socket.  join_channel and connect themselves accept a second call on the
\* same client, which opens a second socket and spawns a second pair of tasks.
Conns == IF facade \in {"rejoin", "reconnect"} THEN {1, 2} ELSE {1}

\* The write tasks run beside the sends and beside a second connection.
SignalingWriter == facade \in {"signaling", "rejoin"}
ChatWriter == facade \in {"chat", "reconnect"}

\* The events the backend's frames make a read task emit: bounded where inbound
\* traffic is explored, none beside the sends.
EmitBound == IF facade \in {"session", "presence"} THEN MaxEmits ELSE 0

\* ------------------------------------------------------------- envelopes
\* RealtimeMessage {topic, event, payload, ref}.  The payload is kept as a
\* record of the JSON fields the two clients write.
NoPayload ==
    [type |-> "none", event |-> "none", inner |-> "none", n |-> 0,
     access_token |-> "None", presence_key |-> "None"]

USER_ID == "u1"
SESSION_ID == "s1"
CONVERSATION_ID == "c1"

SessionTopic(channel) == "realtime:session:" \o channel
ChatUserTopic(user) == "realtime:chat:user:" \o user
ConversationTopic(conv) == "realtime:chat:" \o conv

\* realtime.rs 260-275 and chat_realtime.rs 219-234
JoinMsg(topic, token) ==
    [topic |-> topic, event |-> "phx_join",
     payload |-> [NoPayload EXCEPT !.access_token = token,
                                   !.presence_key = USER_ID],
     ref |-> "1"]

\* realtime.rs 286-295, 304-313, 360-371: a SignalingMessage wrapped for broadcast
SignalingBroadcast(topic, inner, n) ==
    [topic |-> topic, event |-> "broadcast",
     payload |-> [NoPayload EXCEPT !.type = "broadcast", !.event = "signaling",
                                   !.inner = inner, !.n = n],
     ref |-> "None"]

\* chat_realtime.rs 284-302
ChatBroadcast(conv, n) ==
    [topic |-> ConversationTopic(conv), event |-> "broadcast",
     payload |-> [NoPayload EXCEPT !.type = "broadcast", !.event = "chat_message",
                                   !.inner = "chat_message", !.n = n],
     ref |-> "None"]

\* chat_realtime.rs 322-334
SubscribeMsg(conv, token, n) ==
    [topic |-> ConversationTopic(conv), event |-> "phx_join",
     payload |-> [NoPayload EXCEPT !.access_token = token, !.n = n],
     ref |-> "uuid"]

\* A heartbeat that carries a ref, as the join does.
HeartbeatWithRef ==
    [topic |-> "phoenix", event |-> "heartbeat", payload |-> NoPayload, ref |-> "1"]

\* realtime.rs 329-334 and chat_realtime.rs 252-257
Heartbeat ==
    [topic |-> "phoenix", event |-> "heartbeat", payload |-> NoPayload, ref |-> "None"]

\* The topic the write task of the facade joins.
ChannelTopic ==
    IF SignalingClient THEN SessionTopic(SESSION_ID) ELSE ChatUserTopic(USER_ID)

\* ------------------------------------------------------------- the socket
\* sent[g] holds one record per transmit attempted: the envelope and whether the
\* sink accepted it.  A sink that failed once fails every later send.
Broken(g) == \E i \in 1..Len(sent[g]) : ~sent[g][i].ok

Outcomes(g) == IF Broken(g) THEN {FALSE} ELSE {TRUE, FALSE}

\* The frames that reached the wire, in order.
Wire(g) == SelectSeq(sent[g], LAMBDA a : a.ok)

HeartbeatsSent(g) == Len(SelectSeq(sent[g], LAMBDA a : a.env.event = "heartbeat"))

Transmit(g, env, ok) == sent' = [sent EXCEPT ![g] = Append(@, [env |-> env, ok |-> ok])]

\* An inbound envelope, as far as the read tasks look at it: topic, event, ref and,
\* of the payload, the status of a reply; the inner type of a broadcast, whether
\* the inner payload decodes with all its fields, and the user id and is_online
\* it carries; the key sets of joins and leaves.  NoEnvelope stands for "none".
NoEnvelope ==
    [event |-> "none", topic |-> "none", ref |-> "None", status |-> "none",
     inner |-> "none", valid |-> FALSE, user |-> "None", online |-> FALSE,
     joins |-> {}, leaves |-> {}]

\* ------------------------------------------------------- the wire format
\* JSON values: null, a string, an object (a function from its keys to values).
JNull == <<"null">>

JString(s) == <<"string", s>>

\* Option<String>: <<>> is None, <<s>> is Some(s).
Some(s) == <<s>>

\* The values of the fields of the RealtimeMessage struct (realtime.rs 64-72,
\* chat_realtime.rs 15-23); payload is a serde_json::Value.
Topics == {"phoenix", "realtime:session:s1"}
Events == {"heartbeat", "phx_reply", "broadcast"}
Payloads == {JNull, JString("ok"), <<"object", "status", "ok">>}
References == {<<>>, Some("1"), Some("null")}

Envelopes ==
    [topic : Topics, event : Events, payload : Payloads, reference : References]

\* serde_json::to_string with the field `reference` written under the key the
\* struct declares.
encode_unrenamed(e) ==
    [topic |-> JString(e.topic), event |-> JString(e.event), payload |-> e.payload,
     reference |-> IF e.reference = <<>> THEN JNull ELSE JString(e.reference[1])]

\* serde_json::to_string(&RealtimeMessage): one key per field, `reference`
\* under "ref" (#[serde(rename = "ref")]); None is written as null.
encode(e) ==
    [topic |-> JString(e.topic), event |-> JString(e.event), payload |-> e.payload,
     ref |-> IF e.reference = <<>> THEN JNull ELSE JString(e.reference[1])]

IsJString(v) == Len(v) = 2 /\ v[1] = "string"

\* serde_json::from_str::<RealtimeMessage>: topic, event and payload are
\* required, topic and event strings; "ref" may be missing or null (None) or a
\* string; other keys are ignored.  The Result is <<message>> for Ok and <<>>
\* for Err.
decode(w) ==
    IF /\ {"topic", "event", "payload"} \subseteq DOMAIN w
       /\ IsJString(w.topic) /\ IsJString(w.event)
       /\ "ref" \in DOMAIN w => (w.ref = JNull \/ IsJString(w.ref))
       THEN <<[topic |-> w.topic[2], event |-> w.event[2], payload |-> w.payload,
               reference |-> IF "ref" \in DOMAIN w /\ w.ref # JNull
                                THEN Some(w.ref[2]) ELSE <<>>]>>
       ELSE <<>>

\* A text from a peer that leaves the key "ref" out.
WithoutRef(w) == [k \in DOMAIN w \ {"ref"} |-> w[k]]

NoCodec == [pc |-> "none", e |-> <<>>, wire |-> <<>>, out |-> <<>>]

\* An envelope is serialized.
codec_encode ==
    /\ codec.pc = "input"
    /\ codec' = [codec EXCEPT !.pc = "encoded", !.wire = encode(codec.e)]
    /\ UNCHANGED <<facade, app, write_waiters, signaling_rx, clientVars, ownerVars, joinVars, taskVars, queueVars, sent,
                   sendVars, joinedBy, emitted, hbVars, access_token, cacheVars>>

\* A peer that writes no null leaves the key "ref" of an absent reference out.
codec_relay ==
    /\ codec.pc = "encoded"
    /\ codec.e.reference = <<>>
    /\ codec' = [codec EXCEPT !.pc = "relayed", !.wire = WithoutRef(codec.wire)]
    /\ UNCHANGED <<facade, app, write_waiters, signaling_rx, clientVars, ownerVars, joinVars, taskVars, queueVars, sent,
                   sendVars, joinedBy, emitted, hbVars, access_token, cacheVars>>

\* The text is parsed.
codec_decode ==
    /\ codec.pc \in {"encoded", "relayed"}
    /\ codec' = [codec EXCEPT !.pc = "decoded", !.out = decode(codec.wire)]
    /\ UNCHANGED <<facade, app, write_waiters, signaling_rx, clientVars, ownerVars, joinVars, taskVars, queueVars, sent,
                   sendVars, joinedBy, emitted, hbVars, access_token, cacheVars>>

\* --------------------------------------------------------------- Init
\* A HashMap is a function whose domain is the set of keys it holds.
EmptyMap == [k \in {} |-> 0]

\* realtime.rs 180: broadcast::channel::<SignalingMessage>(100), scaled.  The
\* channel keeps the newest BroadcastCapacity values.
BroadcastCapacity == 1

\* The signaling messages a read task decodes: bounded where inbound traffic is
\* explored, none beside the sends.
MaxDecoded == 2
DecodeBound == IF facade = "session" THEN MaxDecoded ELSE 0

\* buf: the values the receiver has not yet received; missed: a value it had not
\* received was overwritten; pc: the forwarder task; log: every message the
\* read task decoded, in order.
NoReceiver == [buf |-> <<>>, missed |-> FALSE, pc |-> "none", log |-> <<>>]

\* realtime.rs 225: `let _ = signaling_tx_clone.send(signaling)`.  A send with
\* no receiver left fails and the failure is ignored; a send into a full
\* channel overwrites the oldest value, which the receiver then has missed.
broadcast_send(r, msgs) ==
    IF msgs = <<>> THEN r
    ELSE LET logged == [r EXCEPT !.log = @ \o msgs]
         IN  IF r.pc = "done" THEN logged
             ELSE IF Len(r.buf) < BroadcastCapacity
                     THEN [logged EXCEPT !.buf = @ \o msgs]
                     ELSE [logged EXCEPT !.buf = Tail(@) \o msgs, !.missed = TRUE]

\* RealtimeClient::new (realtime.rs 101-112), ChatRealtimeClient::new
\* (chat_realtime.rs 41-51), SignalingStateInner::default (signaling.rs 14-19),
\* What the command layer holds before any command ran: the statistics last
\* reported by get_cache_stats (cache.rs 157-163).
NoApp ==
    [seen |-> [meetings_cached |-> 0, has_upcoming |-> FALSE], held |-> <<>>, user |-> "None"]

\* AppCache::new (cache.rs 416-422).
FreshState ==
    /\ app = NoApp
    /\ write_waiters = {}
    /\ signaling_rx = [g \in Conns |-> NoReceiver]
    /\ access_token = "None"
    /\ state = "Disconnected"
    /\ current_channel = "None"
    /\ is_connected = FALSE
    /\ message_tx = 0
    /\ realtime = FALSE
    /\ signaling_tx = 0
    /\ sig_is_connected = FALSE
    /\ joinPc = "idle"
    /\ joinToken = "None"
    /\ joinResult = "none"
    /\ nconn = 0
    /\ readerPc = [g \in Conns |-> "none"]
    /\ writerPc = [g \in Conns |-> "none"]
    /\ outgoing = [g \in Conns |-> <<>>]
    /\ internal = [g \in Conns |-> <<>>]
    /\ sent = [g \in Conns |-> <<>>]
    /\ enqLog = [g \in Conns |-> <<>>]
    /\ nsend = 0
    /\ sendRes = [m \in Msgs |-> "idle"]
    /\ sendConn = [m \in Msgs |-> 0]
    /\ sendAt = [m \in Msgs |->
                    [kind |-> "none", error |-> FALSE, full |-> FALSE, torn |-> FALSE,
                     early |-> FALSE]]
    /\ joinedBy = NoEnvelope
    /\ emitted = <<>>
    /\ waited = [g \in Conns |-> 0]
    /\ sinceHb = [g \in Conns |-> 0]
    /\ now = 0
    /\ nticks = 0
    /\ nset = 0
    /\ by_month = EmptyMap
    /\ by_id = EmptyMap
    /\ upcoming = <<>>
    /\ by_conversation = EmptyMap
    /\ last_timestamp = EmptyMap
    /\ by_user = EmptyMap
    /\ team_members = <<>>
    /\ cachePc = "idle"
    /\ written = {}

Fresh == FreshState /\ codec = NoCodec

\* The signaling client or the chat client, each with its sends.
Init == facade \in {"signaling", "chat"} /\ Fresh

\* ------------------------------------------------------------- the locks
\* A send that waits for queue space keeps the read guard it took: of the client's
\* inner lock in chat (chat_realtime.rs 280, 314), of the SignalingState lock in
\* signaling (signaling.rs 142).  A writer of that lock proceeds only when no read
\* guard is held.
Waiting == {m \in Msgs : sendRes[m] = "waiting"}

InnerReadHeld == facade = "chat" /\ Waiting # {}

OwnerReadHeld == facade = "signaling" /\ Waiting # {}

\* tokio's RwLock is fair: once a task is queued for the write lock, read locks
\* are no longer given out until that task has had the write lock.
WriterQueued == write_waiters # {}

\* chat_realtime.rs 346, 197, 203: inner.write().await while a read guard is
\* held.  The caller (disconnect, or the read task that has read a close frame
\* or a transport error) is queued for the write lock.
inner_write_wait(w) ==
    /\ facade = "chat"
    /\ InnerReadHeld
    /\ w \notin write_waiters
    /\ w = "read_task" => \E g \in Conns : readerPc[g] = "running"
    /\ write_waiters' = write_waiters \cup {w}
    /\ UNCHANGED <<facade, app, codec, signaling_rx, cacheVars, hbVars, emitted, joinedBy, access_token,
                   clientVars, ownerVars, joinVars, taskVars, queueVars, sent, sendVars>>

\* ------------------------------------------------------ set_access_token
\* Every caller passes Some(token) (signaling.rs 54, chat.rs 766).
Tokens == {"t1"}

\* realtime.rs 131-134, chat_realtime.rs 65-68
set_access_token(token) ==
    /\ ~InnerReadHeld
    /\ access_token # token
    /\ access_token' = token
    /\ UNCHANGED <<facade, auxVars, cacheVars, hbVars, emitted, joinedBy, clientVars, ownerVars, joinVars, taskVars, queueVars,
                   sent, sendVars>>

\* ------------------------------------------- join_channel (signaling)
\* A join_channel that marks the client Connecting before the transport is open.
join_channel_begin_eager ==
    /\ SignalingClient
    /\ joinPc = "idle"
    /\ nconn < Cardinality(Conns)
    /\ state' = "Connecting"
    /\ IF access_token = "None"
          THEN /\ joinResult' = "AuthError"
               /\ UNCHANGED <<joinPc, joinToken>>
          ELSE /\ joinPc' = "opening"
               /\ joinToken' = access_token
               /\ joinResult' = "none"
    /\ UNCHANGED <<facade, auxVars, cacheVars, hbVars, emitted, joinedBy, access_token, current_channel, is_connected,
                   message_tx, ownerVars, nconn, taskVars, queueVars, sent, sendVars>>

\* realtime.rs 152-168: read the token under the read lock; AuthError without one.
join_channel_begin ==
    /\ SignalingClient
    /\ joinPc \in {"idle", "returned"}
    /\ nconn < Cardinality(Conns)
    /\ IF access_token = "None"
          THEN /\ joinResult' = "AuthError"
               /\ UNCHANGED <<joinPc, joinToken>>
          ELSE /\ joinPc' = "opening"
               /\ joinToken' = access_token
               /\ joinResult' = "none"
    /\ UNCHANGED <<facade, auxVars, cacheVars, hbVars, emitted, joinedBy, access_token, clientVars, ownerVars, nconn, taskVars,
                   queueVars, sent, sendVars>>

\* realtime.rs 173-182: connect_async; NetworkError when the open fails.
join_channel_open(ok) ==
    /\ SignalingClient
    /\ joinPc = "opening"
    /\ IF ok
          THEN /\ joinPc' = "opened"
               /\ nconn' = nconn + 1
               /\ UNCHANGED joinResult
          ELSE /\ joinPc' = "idle"
               /\ joinResult' = "NetworkError"
               /\ UNCHANGED nconn
    /\ UNCHANGED <<facade, auxVars, cacheVars, hbVars, emitted, joinedBy, access_token, clientVars, ownerVars, joinToken, taskVars,
                   queueVars, sent, sendVars>>

\* A write task that enters its loop without sending the join.
WriterStartInLoop == "loop"

\* The position the write task starts at (realtime.rs 258-279, chat_realtime.rs
\* 214-238: the join first).
WriterStart == "join"

\* realtime.rs 184-343: the state update under the write lock, then both spawns.
join_channel_spawn ==
    /\ SignalingClient
    /\ joinPc = "opened"
    /\ state' = "Connecting"
    /\ current_channel' = SESSION_ID
    /\ message_tx' = nconn
    /\ readerPc' = [readerPc EXCEPT ![nconn] = "running"]
    /\ writerPc' = [writerPc EXCEPT ![nconn] = WriterStart]
    /\ joinPc' = "spawned"
    /\ UNCHANGED <<facade, auxVars, cacheVars, hbVars, emitted, joinedBy, access_token, is_connected, ownerVars, joinToken,
                   joinResult, nconn, queueVars, sent, sendVars>>

\* realtime.rs 345-350: the final state write and the return of the handles.
join_channel_finish ==
    /\ SignalingClient
    /\ joinPc = "spawned"
    /\ state' = "Connected"
    /\ joinPc' = "returned"
    /\ joinResult' = "Ok"
    /\ UNCHANGED <<facade, auxVars, cacheVars, hbVars, emitted, joinedBy, access_token, current_channel, is_connected, message_tx,
                   ownerVars, joinToken, nconn, taskVars, queueVars, sent, sendVars>>

\* signaling.rs 61-67: connect_signaling stores the client and the sender.
connect_signaling_store ==
    /\ SignalingClient
    /\ joinPc = "returned"
    /\ ~OwnerReadHeld
    /\ realtime' = TRUE
    /\ signaling_tx' = nconn
    /\ sig_is_connected' = TRUE
    /\ joinPc' = "idle"
    /\ signaling_rx' = [signaling_rx EXCEPT ![nconn].pc = "running"]
    /\ UNCHANGED <<facade, app, codec, write_waiters, cacheVars, hbVars, emitted, joinedBy, access_token, clientVars, joinToken, joinResult, nconn,
                   taskVars, queueVars, sent, sendVars>>

\* signaling.rs 71-90: the forwarder.  recv() fails when the receiver has
\* missed a value (RecvError::Lagged) and when the channel is empty with every
\* sender gone (RecvError::Closed); `while let Ok(msg)` ends on either.
signaling_forward(g) ==
    /\ SignalingClient
    /\ signaling_rx[g].pc = "running"
    /\ IF signaling_rx[g].missed
          THEN /\ signaling_rx' = [signaling_rx EXCEPT ![g].pc = "done"]
               /\ UNCHANGED emitted
          ELSE IF signaling_rx[g].buf # <<>>
                  THEN /\ Len(emitted) < EmitBound
                       /\ emitted' = Append(emitted, Head(signaling_rx[g].buf))
                       /\ signaling_rx' = [signaling_rx EXCEPT ![g].buf = Tail(@)]
                  ELSE /\ readerPc[g] = "done"
                       /\ signaling_rx' = [signaling_rx EXCEPT ![g].pc = "done"]
                       /\ UNCHANGED emitted
    /\ UNCHANGED <<facade, app, codec, write_waiters, cacheVars, hbVars, joinedBy, access_token,
                   clientVars, ownerVars, joinVars, taskVars, queueVars, sent, sendVars>>

\* ---------------------------------------------------- connect (chat)
\* chat_realtime.rs 72-88
connect_begin ==
    /\ ChatClient
    /\ ~WriterQueued
    /\ joinPc = "idle"
    /\ nconn < Cardinality(Conns)
    /\ IF access_token = "None"
          THEN /\ joinResult' = "AuthError"
               /\ UNCHANGED <<joinPc, joinToken>>
          ELSE /\ joinPc' = "opening"
               /\ joinToken' = access_token
               /\ joinResult' = "none"
    /\ UNCHANGED <<facade, auxVars, cacheVars, hbVars, emitted, joinedBy, access_token, clientVars, ownerVars, nconn, taskVars,
                   queueVars, sent, sendVars>>

\* chat_realtime.rs 93-100
connect_open(ok) ==
    /\ ChatClient
    /\ joinPc = "opening"
    /\ IF ok
          THEN /\ joinPc' = "opened"
               /\ nconn' = nconn + 1
               /\ UNCHANGED joinResult
          ELSE /\ joinPc' = "idle"
               /\ joinResult' = "NetworkError"
               /\ UNCHANGED nconn
    /\ UNCHANGED <<facade, auxVars, cacheVars, hbVars, emitted, joinedBy, access_token, clientVars, ownerVars, joinToken, taskVars,
                   queueVars, sent, sendVars>>

\* chat_realtime.rs 102-276: the state update, both spawns, Ok.
connect_spawn ==
    /\ ChatClient
    /\ joinPc = "opened"
    /\ ~InnerReadHeld
    /\ is_connected' = TRUE
    /\ message_tx' = nconn
    /\ readerPc' = [readerPc EXCEPT ![nconn] = "running"]
    /\ writerPc' = [writerPc EXCEPT ![nconn] = WriterStart]
    /\ joinPc' = "idle"
    /\ joinResult' = "Ok"
    /\ UNCHANGED <<facade, auxVars, cacheVars, hbVars, emitted, joinedBy, access_token, state, current_channel, ownerVars,
                   joinToken, nconn, queueVars, sent, sendVars>>

\* ------------------------------------------------------- the TTL cache
\* Default lifetimes, in seconds.
MEETING_TTL == 300
UPCOMING_TTL == 60
MESSAGE_TTL == 120
PRESENCE_TTL == 30

\* HashMap::insert, HashMap::remove and HashMap::retain.
Insert(m, k, v) == [x \in DOMAIN m \cup {k} |-> IF x = k THEN v ELSE m[x]]

Remove(m, k) == [x \in DOMAIN m \ {k} |-> m[x]]

Retain(m, keep(_)) == [x \in {y \in DOMAIN m : keep(m[y])} |-> m[x]]

\* cache.rs 26-32: CacheEntry::new
CacheEntry(data, ttl) == [data |-> data, created_at |-> now, ttl |-> ttl]

\* Instant::elapsed: the time since created_at, never negative.
Elapsed(entry) == IF now > entry.created_at THEN now - entry.created_at ELSE 0

\* An is_expired that counts the instant created_at + ttl as expired.
is_expired_at_ttl(entry) == Elapsed(entry) >= entry.ttl

\* cache.rs 34-36
is_expired(entry) == Elapsed(entry) > entry.ttl

\* cache.rs 38-45
remaining_ttl(entry) ==
    IF Elapsed(entry) > entry.ttl THEN 0 ELSE entry.ttl - Elapsed(entry)

\* A get that hands out whatever is stored, expired or not.
Stored_data(opt) == IF opt # <<>> THEN <<opt[1].data>> ELSE <<>>

\* Option::filter(|entry| !entry.is_expired()).map(|entry| &entry.data) on an
\* Option<CacheEntry>: <<>> is None, <<data>> is Some(data).
Fresh_data(opt) ==
    IF opt # <<>> /\ ~is_expired(opt[1]) THEN <<opt[1].data>> ELSE <<>>

\* HashMap::get
Lookup(m, k) == IF k \in DOMAIN m THEN <<m[k]>> ELSE <<>>

\* ---------------------------------------------------- PresenceCache
Users == {"u7", "u8"}

\* cache.rs 283-289
PresenceInfo(user, online) ==
    [user_id |-> user, is_online |-> online, last_seen |-> "None", status |-> "away"]

\* cache.rs 311-316
get_user(user_id) == Fresh_data(Lookup(by_user, user_id))

\* cache.rs 326-331
get_team_members == Fresh_data(team_members)

\* The index of the first member with this user id, 0 if there is none
\* (iter_mut().find, cache.rs 352).
FindMember(members, user_id) ==
    LET hits == {i \in 1..Len(members) : members[i].user_id = user_id}
    IN  IF hits = {} THEN 0 ELSE CHOOSE i \in hits : \A j \in hits : i <= j

\* An update that sets is_online and leaves created_at as it was.
update_from_realtime_no_refresh(P, user_id, is_online) ==
    [by_user |->
        IF user_id \in DOMAIN P.by_user
           THEN [P.by_user EXCEPT ![user_id] =
                    [@ EXCEPT !.data = [@ EXCEPT !.is_online = is_online]]]
           ELSE P.by_user,
     team_members |-> P.team_members]

\* cache.rs 344-357 on the presence store P = [by_user, team_members], at the
\* clock `now`.
update_from_realtime(P, user_id, is_online) ==
    [by_user |->
        IF user_id \in DOMAIN P.by_user
           THEN [P.by_user EXCEPT ![user_id] =
                    [@ EXCEPT !.data = [@ EXCEPT !.is_online = is_online],
                              !.created_at = now]]
           ELSE P.by_user,
     team_members |->
        IF P.team_members # <<>>
           THEN LET entry == P.team_members[1]
                    i == FindMember(entry.data, user_id)
                IN  <<[entry EXCEPT
                          !.data = IF i = 0 THEN @
                                   ELSE [@ EXCEPT ![i] = [@ EXCEPT !.is_online = is_online]],
                          !.created_at = now]>>
           ELSE <<>>]

RECURSIVE UpdateEach(_, _, _)
\* chat_realtime.rs 172-176, 181-185: one update_from_realtime per key.
UpdateEach(P, users, is_online) ==
    IF users = {} THEN P
    ELSE LET u == CHOOSE x \in users : TRUE
         IN  UpdateEach(update_from_realtime(P, u, is_online), users \ {u}, is_online)

\* chat_realtime.rs 166-188: the joins, then the leaves.
PresenceArm(joins, leaves) ==
    UpdateEach(UpdateEach([by_user |-> by_user, team_members |-> team_members],
                          joins, TRUE),
               leaves, FALSE)

\* ------------------------------------------------------- the read task
\* What read.next() can yield: a text frame that decodes to an envelope or does
\* not, a close frame, a transport error, another frame kind, the end of the stream.
\* The ok and the error reply to the join (ref "1" on the joined topic), the reply
\* to a heartbeat (topic "phoenix") and the reply to a conversation join (chat).
Replies ==
    {[NoEnvelope EXCEPT !.event = "phx_reply", !.topic = r[1], !.ref = r[2],
                        !.status = r[3]] :
        r \in {<<ChannelTopic, "1", "ok">>, <<ChannelTopic, "1", "error">>,
               <<"phoenix", "None", "ok">>,
               <<ConversationTopic(CONVERSATION_ID), "uuid", "ok">>}}

\* The user ids inbound frames name: both users beside the presence store, one
\* where the store stays empty.
FrameUsers == IF facade = "presence" THEN Users ELSE {"u7"}

\* Broadcasts: an inner payload of a type the facade knows or of an unknown type,
\* decodable with all its fields or not; a presence_change names a user.
Broadcasts ==
    {[NoEnvelope EXCEPT !.event = "broadcast", !.topic = ChannelTopic, !.inner = t,
                        !.valid = v] :
        t \in (IF SignalingClient THEN {"offer"} ELSE {"chat_message"})
                  \cup {"unknown"},
        v \in BOOLEAN}
    \cup {[NoEnvelope EXCEPT !.event = "broadcast", !.topic = ChannelTopic,
                             !.inner = "presence_change", !.valid = (u # "None"),
                             !.user = u, !.online = b] :
            u \in (IF SignalingClient THEN {} ELSE FrameUsers \cup {"None"}),
            b \in BOOLEAN}

\* presence_diff and presence_state with every pair of disjoint key sets (the
\* signaling read task does not look at them).
PresenceEvents ==
    {[NoEnvelope EXCEPT !.event = e, !.topic = ChannelTopic, !.joins = j, !.leaves = l] :
        e \in {"presence_diff", "presence_state"},
        j \in (IF SignalingClient THEN {{}} ELSE SUBSET FrameUsers),
        l \in (IF SignalingClient THEN {{}} ELSE SUBSET FrameUsers)}

InEnvelopes ==
    Replies \cup Broadcasts
        \cup {e \in PresenceEvents : e.joins \cap e.leaves = {}}
        \cup {[NoEnvelope EXCEPT !.event = "other", !.topic = ChannelTopic]}

InFrames ==
    {[ws |-> "Text", decodes |-> TRUE, env |-> e] : e \in InEnvelopes}
        \cup {[ws |-> w, decodes |-> FALSE, env |-> NoEnvelope] :
                  w \in {"Text", "Close", "Err", "Other", "End"}}

\* The backend sends a phx_reply only in answer to a request that reached it: a
\* reply carries the topic and the ref of a frame on the wire.
Deliverable(g, f) ==
    (f.ws = "Text" /\ f.decodes /\ f.env.event = "phx_reply") =>
        \E i \in 1..Len(Wire(g)) :
            /\ Wire(g)[i].env.topic = f.env.topic
            /\ Wire(g)[i].env.ref = f.env.ref
            /\ Wire(g)[i].env.event \in {"phx_join", "heartbeat"}

\* realtime.rs 207-216: which reply the read task takes as the join confirmation.
IsJoinConfirmation(e) == e.event = "phx_reply" /\ e.status = "ok"

\* The variants of SignalingMessage (realtime.rs 13-62), by their tag: Offer
\* stands for the nine.
SignalingTypes == {"offer"}

\* realtime.rs 217-228 and signaling.rs 71-90: what a frame makes the read task
\* hand to the forwarder, which emits it to the frontend.
SignalingEmits(f) ==
    IF /\ f.ws = "Text" /\ f.decodes /\ f.env.event = "broadcast"
       /\ f.env.inner \in SignalingTypes /\ f.env.valid
       THEN <<"signaling:" \o f.env.inner>> ELSE <<>>

\* chat_realtime.rs 133-190: the event a frame makes the read task emit.
ChatEmits(f) ==
    IF ~(f.ws = "Text" /\ f.decodes) THEN <<>>
    ELSE CASE f.env.event = "broadcast" /\ f.env.inner = "chat_message" /\ f.env.valid
                  -> <<"chat:new-message">>
           [] f.env.event = "broadcast" /\ f.env.inner = "presence_change"
                  -> <<"chat:presence-change">>
           [] f.env.event \in {"presence_diff", "presence_state"}
                  -> <<"chat:presence-update">>
           [] OTHER -> <<>>

\* chat_realtime.rs 147-158, 166-188: the presence store after the frame.
ChatPresence(f) ==
    LET P == [by_user |-> by_user, team_members |-> team_members]
    IN  IF ~(f.ws = "Text" /\ f.decodes) THEN P
        ELSE CASE f.env.event = "broadcast" /\ f.env.inner = "presence_change"
                      /\ f.env.valid
                      -> update_from_realtime(P, f.env.user, f.env.online)
               [] f.env.event \in {"presence_diff", "presence_state"}
                      -> PresenceArm(f.env.joins, f.env.leaves)
               [] OTHER -> P

\* realtime.rs 198-252
signaling_read(g, f) ==
    /\ SignalingClient
    /\ readerPc[g] = "running"
    /\ Deliverable(g, f)
    /\ Len(signaling_rx[g].log) + Len(SignalingEmits(f)) <= DecodeBound
    /\ signaling_rx' = [signaling_rx EXCEPT ![g] = broadcast_send(@, SignalingEmits(f))]
    /\ UNCHANGED <<emitted, app, codec, write_waiters>>
    /\ CASE f.ws = "Text" /\ f.decodes /\ IsJoinConfirmation(f.env) ->
                /\ state' = "Joined"
                /\ joinedBy' = IF state = "Joined" THEN joinedBy ELSE f.env
                /\ UNCHANGED readerPc
         [] f.ws = "Close" ->
                /\ state' = "Disconnected"
                /\ readerPc' = [readerPc EXCEPT ![g] = "done"]
                /\ UNCHANGED joinedBy
         [] f.ws = "Err" ->
                /\ state' = "Error"
                /\ readerPc' = [readerPc EXCEPT ![g] = "done"]
                /\ UNCHANGED joinedBy
         [] f.ws = "End" ->
                /\ readerPc' = [readerPc EXCEPT ![g] = "done"]
                /\ UNCHANGED <<state, joinedBy>>
         [] OTHER -> UNCHANGED <<state, readerPc, joinedBy>>
    /\ UNCHANGED <<facade, cacheVars, hbVars, access_token, current_channel, is_connected,
                   message_tx, ownerVars, joinVars, writerPc, queueVars, sent, sendVars>>

\* chat_realtime.rs 116-210
chat_read(g, f) ==
    /\ ChatClient
    /\ readerPc[g] = "running"
    /\ "read_task" \in write_waiters => f.ws \in {"Close", "Err"}
    /\ Deliverable(g, f)
    /\ Len(emitted) + Len(ChatEmits(f)) <= EmitBound
    /\ emitted' = emitted \o ChatEmits(f)
    /\ by_user' = ChatPresence(f).by_user
    /\ team_members' = ChatPresence(f).team_members
    /\ CASE f.ws \in {"Close", "Err"} ->
                /\ ~InnerReadHeld
                /\ write_waiters' = write_waiters \ {"read_task"}
                /\ is_connected' = FALSE
                /\ readerPc' = [readerPc EXCEPT ![g] = "done"]
         [] f.ws = "End" ->
                /\ UNCHANGED <<is_connected, write_waiters>>
                /\ readerPc' = [readerPc EXCEPT ![g] = "done"]
         [] OTHER -> UNCHANGED <<is_connected, readerPc, write_waiters>>
    /\ UNCHANGED <<facade, app, codec, signaling_rx, now, nticks, nset, meetingVars, messageVars, cachePc, written,
                   hbVars, joinedBy, access_token, state, current_channel, message_tx,
                   ownerVars, joinVars, writerPc, queueVars, sent, sendVars>>

\* ------------------------------------------------------ the mpsc queues
\* tokio::sync::mpsc::channel(Capacity): send() waits while the queue is full and
\* fails once the receiver is dropped, which happens when the write task ends.
ReceiverDropped(g) == writerPc[g] = "done"

\* Waiting senders are served in the order they called.
FirstWaiting(m) == \A k \in Waiting : sendConn[k] = sendConn[m] => m <= k

WaitingOn(g) == {m \in Waiting : sendConn[m] = g}

\* disconnect (chat) or disconnect_signaling has returned on the connected client:
\* only they clear message_tx and the stored client once the connect has set them.
TornDown ==
    /\ nconn > 0
    /\ joinPc = "idle"
    /\ IF facade = "signaling" THEN ~realtime ELSE message_tx = 0

\* What the caller of send m could observe at the call.
Observed(kind, full) ==
    [kind |-> kind, error |-> state = "Error", full |-> full,
     torn |-> TornDown,
     early |-> \E g \in Conns : writerPc[g] = "join"]

\* The write task ends: both receivers are dropped with what they still hold.
WriterExit(g) ==
    /\ writerPc' = [writerPc EXCEPT ![g] = "done"]
    /\ outgoing' = [outgoing EXCEPT ![g] = <<>>]
    /\ internal' = [internal EXCEPT ![g] = <<>>]

\* ------------------------------------------------- the heartbeat timer
\* realtime.rs 10, chat_realtime.rs 13
HEARTBEAT_INTERVAL_MS == 30000

\* Time is observed in steps of half an interval.
HalfInterval == HEARTBEAT_INTERVAL_MS \div 2

\* The queues the select of the write loop receives from hold nothing.
QueuesEmpty(g) ==
    IF SignalingWriter THEN outgoing[g] = <<>> /\ internal[g] = <<>>
    ELSE internal[g] = <<>>

\* realtime.rs 302-341, chat_realtime.rs 242-264: the select is pending, no branch
\* ready, and time passes.  Each iteration of the loop builds its own
\* sleep(HEARTBEAT_INTERVAL_MS), so `waited` runs from the start of the
\* iteration; a message taken by the other branch starts the next iteration.
\* After MaxHeartbeats heartbeats time passes only while no further one gets due.
write_wait(g) ==
    /\ writerPc[g] = "loop"
    /\ QueuesEmpty(g)
    /\ waited[g] < HEARTBEAT_INTERVAL_MS
    /\ HeartbeatsSent(g) < MaxHeartbeats \/ waited[g] + HalfInterval < HEARTBEAT_INTERVAL_MS
    /\ waited' = [waited EXCEPT ![g] = @ + HalfInterval]
    /\ sinceHb' = [sinceHb EXCEPT ![g] =
                       IF @ < HEARTBEAT_INTERVAL_MS THEN @ + HalfInterval ELSE @]
    /\ UNCHANGED <<facade, auxVars, cacheVars, emitted, joinedBy, access_token, clientVars, ownerVars,
                   joinVars, taskVars, queueVars, sent, sendVars>>

\* -------------------------------------------- the write task (signaling)
\* realtime.rs 260-279: the join is sent first; a failed send is ignored.
signaling_write_join(g, ok) ==
    /\ SignalingWriter
    /\ writerPc[g] = "join"
    /\ Transmit(g, JoinMsg(SessionTopic(SESSION_ID), joinToken), ok)
    /\ writerPc' = [writerPc EXCEPT ![g] = "user_joined"]
    /\ UNCHANGED <<facade, auxVars, cacheVars, hbVars, emitted, joinedBy, access_token, clientVars, ownerVars, joinVars, readerPc,
                   queueVars, sendVars>>

\* realtime.rs 281-298: the UserJoined broadcast; a failed send is ignored.
signaling_write_user_joined(g, ok) ==
    /\ SignalingWriter
    /\ writerPc[g] = "user_joined"
    /\ Transmit(g, SignalingBroadcast(SessionTopic(SESSION_ID), "user_joined", 0), ok)
    /\ writerPc' = [writerPc EXCEPT ![g] = "loop"]
    /\ UNCHANGED <<facade, auxVars, cacheVars, hbVars, emitted, joinedBy, access_token, clientVars, ownerVars, joinVars, readerPc,
                   queueVars, sendVars>>

\* realtime.rs 303-319: the select branch on outgoing_rx.
signaling_write_outgoing(g, ok) ==
    /\ facade = "signaling"
    /\ writerPc[g] = "loop"
    /\ outgoing[g] # <<>>
    /\ Transmit(g, SignalingBroadcast(SessionTopic(SESSION_ID),
                                      Head(outgoing[g]).type, Head(outgoing[g]).n), ok)
    /\ waited' = [waited EXCEPT ![g] = 0]
    /\ IF ok
          THEN /\ outgoing' = [outgoing EXCEPT ![g] = Tail(@)]
               /\ UNCHANGED <<writerPc, internal>>
          ELSE WriterExit(g)
    /\ UNCHANGED <<facade, auxVars, cacheVars, sinceHb, emitted, joinedBy, access_token, clientVars, ownerVars, joinVars, readerPc,
                   enqLog, sendVars>>

\* realtime.rs 320-326: the select branch on internal_rx.
signaling_write_internal(g, ok) ==
    /\ facade = "signaling"
    /\ writerPc[g] = "loop"
    /\ internal[g] # <<>>
    /\ Transmit(g, Head(internal[g]), ok)
    /\ waited' = [waited EXCEPT ![g] = 0]
    /\ IF ok
          THEN /\ internal' = [internal EXCEPT ![g] = Tail(@)]
               /\ UNCHANGED <<writerPc, outgoing>>
          ELSE WriterExit(g)
    /\ UNCHANGED <<facade, auxVars, cacheVars, sinceHb, emitted, joinedBy, access_token, clientVars, ownerVars, joinVars, readerPc,
                   enqLog, sendVars>>

\* realtime.rs 327-340: the sleep has completed.
signaling_write_heartbeat(g, ok) ==
    /\ SignalingWriter
    /\ writerPc[g] = "loop"
    /\ waited[g] = HEARTBEAT_INTERVAL_MS
    /\ waited' = [waited EXCEPT ![g] = 0]
    /\ sinceHb' = [sinceHb EXCEPT ![g] = IF ok THEN 0 ELSE @]
    /\ Transmit(g, Heartbeat, ok)
    /\ IF ok THEN UNCHANGED <<writerPc, outgoing, internal>> ELSE WriterExit(g)
    /\ UNCHANGED <<facade, auxVars, cacheVars, emitted, joinedBy, access_token, clientVars, ownerVars, joinVars, readerPc,
                   enqLog, sendVars>>

\* ------------------------------------------------- the write task (chat)
\* chat_realtime.rs 216-238
chat_write_join(g, ok) ==
    /\ ChatWriter
    /\ writerPc[g] = "join"
    /\ Transmit(g, JoinMsg(ChatUserTopic(USER_ID), joinToken), ok)
    /\ writerPc' = [writerPc EXCEPT ![g] = "loop"]
    /\ UNCHANGED <<facade, auxVars, cacheVars, hbVars, emitted, joinedBy, access_token, clientVars, ownerVars, joinVars, readerPc,
                   queueVars, sendVars>>

\* chat_realtime.rs 243-249
chat_write_message(g, ok) ==
    /\ facade = "chat"
    /\ writerPc[g] = "loop"
    /\ internal[g] # <<>>
    /\ Transmit(g, Head(internal[g]), ok)
    /\ waited' = [waited EXCEPT ![g] = 0]
    /\ IF ok
          THEN /\ internal' = [internal EXCEPT ![g] = Tail(@)]
               /\ writerPc' = [writerPc EXCEPT ![g] = "check"]
               /\ UNCHANGED outgoing
          ELSE WriterExit(g)
    /\ UNCHANGED <<facade, auxVars, cacheVars, sinceHb, emitted, joinedBy, access_token, clientVars, ownerVars, joinVars, readerPc,
                   enqLog, sendVars>>

\* chat_realtime.rs 250-263
chat_write_heartbeat(g, ok) ==
    /\ ChatWriter
    /\ writerPc[g] = "loop"
    /\ waited[g] = HEARTBEAT_INTERVAL_MS
    /\ waited' = [waited EXCEPT ![g] = 0]
    /\ sinceHb' = [sinceHb EXCEPT ![g] = IF ok THEN 0 ELSE @]
    /\ Transmit(g, Heartbeat, ok)
    /\ IF ok
          THEN /\ writerPc' = [writerPc EXCEPT ![g] = "check"]
               /\ UNCHANGED <<outgoing, internal>>
          ELSE WriterExit(g)
    /\ UNCHANGED <<facade, auxVars, cacheVars, emitted, joinedBy, access_token, clientVars, ownerVars, joinVars, readerPc,
                   enqLog, sendVars>>

\* chat_realtime.rs 266-270: the connected check after each iteration.
chat_write_check(g) ==
    /\ ChatWriter
    /\ writerPc[g] = "check"
    /\ ~WriterQueued
    /\ IF is_connected
          THEN /\ writerPc' = [writerPc EXCEPT ![g] = "loop"]
               /\ UNCHANGED <<outgoing, internal>>
          ELSE WriterExit(g)
    /\ UNCHANGED <<facade, auxVars, cacheVars, hbVars, emitted, joinedBy, access_token, clientVars, ownerVars, joinVars, readerPc,
                   enqLog, sent, sendVars>>

\* ------------------------------------------------------ send operations
\* The envelope send m puts on the wire.
EnvelopeOf(kind, m) ==
    CASE kind = "broadcast" -> ChatBroadcast(CONVERSATION_ID, m)
      [] kind = "subscribe" -> SubscribeMsg(CONVERSATION_ID, access_token, m)
      [] OTHER -> SignalingBroadcast(SessionTopic(SESSION_ID), kind, m)

\* The queue a send of this facade feeds: outgoing_tx (realtime.rs 181) for the
\* signaling commands, message_tx (chat_realtime.rs 100) for the chat client.
QueueOf(g) == IF facade = "signaling" THEN outgoing[g] ELSE internal[g]

Enqueue(g, kind, m) ==
    /\ enqLog' = [enqLog EXCEPT ![g] = Append(@, EnvelopeOf(kind, m))]
    /\ IF facade = "signaling"
          THEN /\ outgoing' = [outgoing EXCEPT ![g] = Append(@, [type |-> kind, n |-> m])]
               /\ UNCHANGED internal
          ELSE /\ internal' = [internal EXCEPT ![g] = Append(@, EnvelopeOf(kind, m))]
               /\ UNCHANGED outgoing

\* try_send in place of send: a full queue is reported as a failure at once.
TxTrySend(g, kind, m) ==
    IF ReceiverDropped(g) \/ Len(QueueOf(g)) >= Capacity
       THEN /\ sendRes' = [sendRes EXCEPT ![m] = "NetworkError"]
            /\ sendAt' = [sendAt EXCEPT ![m] =
                              Observed(kind, ~ReceiverDropped(g))]
            /\ UNCHANGED <<sendConn, queueVars>>
       ELSE /\ sendRes' = [sendRes EXCEPT ![m] = "Ok"]
            /\ sendConn' = [sendConn EXCEPT ![m] = g]
            /\ sendAt' = [sendAt EXCEPT ![m] = Observed(kind, FALSE)]
            /\ Enqueue(g, kind, m)

\* tx.send(msg).await on the sender of connection g, for send m.
TxSend(g, kind, m) ==
    IF ReceiverDropped(g)
       THEN /\ sendRes' = [sendRes EXCEPT ![m] = "NetworkError"]
            /\ sendAt' = [sendAt EXCEPT ![m] = Observed(kind, FALSE)]
            /\ UNCHANGED <<sendConn, queueVars>>
       ELSE IF Len(QueueOf(g)) < Capacity /\ WaitingOn(g) = {}
               THEN /\ sendRes' = [sendRes EXCEPT ![m] = "Ok"]
                    /\ sendConn' = [sendConn EXCEPT ![m] = g]
                    /\ sendAt' = [sendAt EXCEPT ![m] = Observed(kind, FALSE)]
                    /\ Enqueue(g, kind, m)
               ELSE /\ sendRes' = [sendRes EXCEPT ![m] = "waiting"]
                    /\ sendConn' = [sendConn EXCEPT ![m] = g]
                    /\ sendAt' = [sendAt EXCEPT ![m] =
                                      Observed(kind, Len(QueueOf(g)) = Capacity)]
                    /\ UNCHANGED queueVars

\* signaling.rs 142-155 (send_offer; send_answer, send_ice_candidate,
\* request_control, grant_control, revoke_control and send_chat_message differ
\* only in the variant they build).
send_offer ==
    /\ facade = "signaling"
    /\ nsend < MaxSends
    /\ nsend' = nsend + 1
    /\ IF signaling_tx = 0
          THEN /\ sendRes' = [sendRes EXCEPT ![nsend + 1] = "SessionError"]
               /\ sendAt' = [sendAt EXCEPT ![nsend + 1] = Observed("offer", FALSE)]
               /\ UNCHANGED <<sendConn, queueVars>>
          ELSE TxSend(signaling_tx, "offer", nsend + 1)
    /\ UNCHANGED <<facade, auxVars, cacheVars, hbVars, emitted, joinedBy, access_token, clientVars, ownerVars, joinVars, taskVars,
                   sent>>

\* chat_realtime.rs 279-310
broadcast_message ==
    /\ facade = "chat"
    /\ ~WriterQueued
    /\ nsend < MaxSends
    /\ nsend' = nsend + 1
    /\ IF message_tx = 0
          THEN /\ sendRes' = [sendRes EXCEPT ![nsend + 1] = "Ok"]
               /\ sendAt' = [sendAt EXCEPT ![nsend + 1] = Observed("broadcast", FALSE)]
               /\ UNCHANGED <<sendConn, queueVars>>
          ELSE TxSend(message_tx, "broadcast", nsend + 1)
    /\ UNCHANGED <<facade, auxVars, cacheVars, hbVars, emitted, joinedBy, access_token, clientVars, ownerVars, joinVars, taskVars,
                   sent>>

\* chat_realtime.rs 313-342
subscribe_to_conversation ==
    /\ facade = "chat"
    /\ ~WriterQueued
    /\ nsend < MaxSends
    /\ nsend' = nsend + 1
    /\ IF access_token = "None"
          THEN /\ sendRes' = [sendRes EXCEPT ![nsend + 1] = "AuthError"]
               /\ sendAt' = [sendAt EXCEPT ![nsend + 1] = Observed("subscribe", FALSE)]
               /\ UNCHANGED <<sendConn, queueVars>>
          ELSE IF message_tx = 0
                  THEN /\ sendRes' = [sendRes EXCEPT ![nsend + 1] = "Ok"]
                       /\ sendAt' = [sendAt EXCEPT ![nsend + 1] =
                                         Observed("subscribe", FALSE)]
                       /\ UNCHANGED <<sendConn, queueVars>>
                  ELSE TxSend(message_tx, "subscribe", nsend + 1)
    /\ UNCHANGED <<facade, auxVars, cacheVars, hbVars, emitted, joinedBy, access_token, clientVars, ownerVars, joinVars, taskVars,
                   sent>>

\* A waiting tx.send(..).await is given the slot the write task freed.
send_resume(m) ==
    /\ sendRes[m] = "waiting"
    /\ ~ReceiverDropped(sendConn[m])
    /\ FirstWaiting(m)
    /\ Len(QueueOf(sendConn[m])) < Capacity
    /\ sendRes' = [sendRes EXCEPT ![m] = "Ok"]
    /\ Enqueue(sendConn[m], sendAt[m].kind, m)
    /\ UNCHANGED <<facade, auxVars, cacheVars, hbVars, emitted, joinedBy, access_token, clientVars, ownerVars, joinVars, taskVars,
                   sent, nsend, sendConn, sendAt>>

\* A waiting tx.send(..).await fails when the receiver is dropped.
send_closed(m) ==
    /\ sendRes[m] = "waiting"
    /\ ReceiverDropped(sendConn[m])
    /\ sendRes' = [sendRes EXCEPT ![m] = "NetworkError"]
    /\ UNCHANGED <<facade, auxVars, cacheVars, hbVars, emitted, joinedBy, access_token, clientVars, ownerVars, joinVars, taskVars,
                   queueVars, sent, nsend, sendConn, sendAt>>

\* --------------------------------------------------------- disconnect
\* realtime.rs 360-371
UserLeftMsg(channel) == SignalingBroadcast(SessionTopic(channel), "user_left", 0)

\* A leave_channel that gives up when the notification cannot be enqueued.
leave_channel_strict ==
    IF current_channel # "None" /\ message_tx # 0 /\ ReceiverDropped(message_tx)
       THEN UNCHANGED <<current_channel, message_tx, state, queueVars>>
       ELSE /\ IF current_channel # "None" /\ message_tx # 0
                  THEN /\ Len(internal[message_tx]) < Capacity
                       /\ internal' = [internal EXCEPT ![message_tx] =
                                           Append(@, UserLeftMsg(current_channel))]
                       /\ enqLog' = [enqLog EXCEPT ![message_tx] =
                                         Append(@, UserLeftMsg(current_channel))]
                       /\ UNCHANGED outgoing
                  ELSE UNCHANGED queueVars
            /\ current_channel' = "None"
            /\ message_tx' = 0
            /\ state' = "Disconnected"

\* realtime.rs 354-381.  The write lock is held across tx.send(leave_msg).await;
\* a send on a dropped receiver fails and the failure is ignored.
leave_channel ==
    /\ IF current_channel # "None" /\ message_tx # 0 /\ ~ReceiverDropped(message_tx)
          THEN /\ Len(internal[message_tx]) < Capacity
               /\ internal' = [internal EXCEPT ![message_tx] =
                                   Append(@, UserLeftMsg(current_channel))]
               /\ enqLog' = [enqLog EXCEPT ![message_tx] =
                                 Append(@, UserLeftMsg(current_channel))]
               /\ UNCHANGED outgoing
          ELSE UNCHANGED queueVars
    /\ current_channel' = "None"
    /\ message_tx' = 0
    /\ state' = "Disconnected"

\* signaling.rs 111-122
disconnect_signaling ==
    /\ facade = "signaling"
    /\ ~OwnerReadHeld
    /\ IF realtime
          THEN leave_channel
          ELSE UNCHANGED <<current_channel, message_tx, state, queueVars>>
    /\ realtime' = FALSE
    /\ signaling_tx' = 0
    /\ sig_is_connected' = FALSE
    /\ UNCHANGED <<facade, auxVars, cacheVars, hbVars, emitted, joinedBy, access_token, is_connected, joinVars, taskVars, sent,
                   sendVars>>

\* chat_realtime.rs 345-349
disconnect ==
    /\ ChatClient
    /\ ~InnerReadHeld
    /\ write_waiters' = write_waiters \ {"disconnect"}
    /\ is_connected' = FALSE
    /\ message_tx' = 0
    /\ UNCHANGED <<facade, app, codec, signaling_rx, cacheVars, hbVars, emitted, joinedBy, access_token, state, current_channel, ownerVars, joinVars,
                   taskVars, queueVars, sent, sendVars>>

\* ------------------------------------------------------------ the clock
\* The last instants at which the entries of a map (or of an Option) are fresh.
FreshUntil(m) == {m[k].created_at + m[k].ttl : k \in DOMAIN m}

\* Time passes: to the last instant at which some stored entry is still fresh,
\* or by one second.
Tick ==
    /\ nticks < MaxTicks
    /\ nticks' = nticks + 1
    /\ \E t \in {now + 1} \cup FreshUntil(by_month) \cup FreshUntil(by_id)
                    \cup FreshUntil(upcoming) \cup FreshUntil(by_conversation)
                    \cup FreshUntil(by_user) \cup FreshUntil(team_members) :
           t > now /\ now' = t
    /\ UNCHANGED <<facade, auxVars, hbVars, emitted, joinedBy, access_token, clientVars, ownerVars,
                   joinVars, taskVars, queueVars, sent, sendVars, nset, storeVars, cachePc,
                   written>>

\* What every cache operation leaves alone.
clientSide == <<facade, auxVars, hbVars, emitted, joinedBy, access_token, clientVars, ownerVars,
                joinVars, taskVars, queueVars, sent, sendVars, now, nticks>>

\* A set operation on a store: counted, and noted when an invalidate_all is running.
InvalidatePcs == {"inv_messages", "inv_presence"}

Sets(store) ==
    /\ nset < MaxSets
    /\ nset' = nset + 1
    /\ written' = IF cachePc \in InvalidatePcs THEN written \cup {store} ELSE written
    /\ UNCHANGED cachePc

\* ------------------------------------------------------- MeetingCache
\* cache.rs 84, 93, 128: format!("{}-{:02}", year, month)
MonthKey(year, month) ==
    ToString(year) \o "-" \o (IF month < 10 THEN "0" ELSE "") \o ToString(month)

Months == {<<2026, 2>>, <<2026, 3>>}

\* Meeting.scheduled_at as the backend returns it, and as a caller passes it.
DATE_UTC == "2026-02-10T09:00:00Z"
DATE_OFFSET == "2026-03-05T09:00:00+00:00"

\* calendar.rs 10-17: the three formats parse_from_str accepts end in "Z", in the
\* seconds, or use a space; a numeric offset is none of them.
extract_year_month(date_str) ==
    CASE date_str = DATE_UTC -> <<<<2026, 2>>>>
      [] OTHER -> <<>>

\* calendar.rs 24ff: a Meeting, as far as the cache looks at it.
Meetings ==
    {[id |-> "m1", scheduled_at |-> DATE_UTC], [id |-> "m2", scheduled_at |-> DATE_OFFSET]}

MeetingLists == {<<>>} \cup {<<m>> : m \in Meetings}

\* The month a meeting takes place in: get_meetings stores under a month the
\* meetings the backend returned for that month's range (calendar.rs 125-181).
ScheduledIn(meeting) == IF meeting.scheduled_at = DATE_UTC THEN <<2026, 2>> ELSE <<2026, 3>>

\* cache.rs 83-89
get_month(year, month) == Fresh_data(Lookup(by_month, MonthKey(year, month)))

\* cache.rs 99-104
get_by_id(id) == Fresh_data(Lookup(by_id, id))

\* cache.rs 114-119
get_upcoming == Fresh_data(upcoming)

\* cache.rs 92-96 (get_meetings, calendar.rs 171-181)
set_month(year, month, meetings) ==
    /\ Sets("meetings")
    /\ by_month' = Insert(by_month, MonthKey(year, month), CacheEntry(meetings, MEETING_TTL))
    /\ UNCHANGED <<clientSide, by_id, upcoming, messageVars, presenceVars>>

\* cache.rs 107-111 (get_meeting, calendar.rs 220-223)
set_by_id(meeting) ==
    /\ Sets("meetings")
    /\ by_id' = Insert(by_id, meeting.id, CacheEntry(meeting, MEETING_TTL))
    /\ UNCHANGED <<clientSide, by_month, upcoming, messageVars, presenceVars>>

\* A set_upcoming that uses the store's default lifetime.
set_upcoming_default_ttl(meetings) ==
    /\ Sets("meetings")
    /\ upcoming' = <<CacheEntry(meetings, MEETING_TTL)>>
    /\ UNCHANGED <<clientSide, by_month, by_id, messageVars, presenceVars>>

\* cache.rs 122-124 (get_upcoming_meetings, calendar.rs 274-275)
set_upcoming(meetings) ==
    /\ Sets("meetings")
    /\ upcoming' = <<CacheEntry(meetings, UPCOMING_TTL)>>
    /\ UNCHANGED <<clientSide, by_month, by_id, messageVars, presenceVars>>

\* An invalidate_month that clears the whole by-month map.
invalidate_month_all(year, month) ==
    /\ by_month' = EmptyMap
    /\ UNCHANGED <<clientSide, nset, by_id, upcoming, messageVars, presenceVars, cachePc,
                   written>>

\* cache.rs 127-130 (invalidate_meeting_month, commands/cache.rs 62-73)
invalidate_month(year, month) ==
    /\ by_month' = Remove(by_month, MonthKey(year, month))
    /\ UNCHANGED <<clientSide, nset, by_id, upcoming, messageVars, presenceVars, cachePc,
                   written>>

\* The by-month map after invalidate_month for the month of an optional date
\* (calendar.rs 379-390: nothing when the date is absent or does not parse).
WithoutMonthOf(bm, date) ==
    IF date = <<>> \/ extract_year_month(date[1]) = <<>> THEN bm
    ELSE LET ym == extract_year_month(date[1])[1] IN Remove(bm, MonthKey(ym[1], ym[2]))

\* An update_meeting that removes the by-id item and leaves the snapshot.
update_meeting_item_only(meeting_id, old_scheduled_at, new_scheduled_at) ==
    /\ by_id' = Remove(by_id, meeting_id)
    /\ by_month' = WithoutMonthOf(WithoutMonthOf(by_month, old_scheduled_at),
                                  new_scheduled_at)
    /\ UNCHANGED <<clientSide, nset, upcoming, messageVars, presenceVars, cachePc, written>>

\* calendar.rs 373-393: update_meeting's cache block, under the meetings lock:
\* invalidate_meeting (cache.rs 133-137), then the old and the new month.
update_meeting(meeting_id, old_scheduled_at, new_scheduled_at) ==
    /\ by_id' = Remove(by_id, meeting_id)
    /\ upcoming' = <<>>
    /\ by_month' = WithoutMonthOf(WithoutMonthOf(by_month, old_scheduled_at),
                                  new_scheduled_at)
    /\ UNCHANGED <<clientSide, nset, messageVars, presenceVars, cachePc, written>>

\* calendar.rs 322-334: create_meeting's cache block after the backend created
\* the meeting, under the meetings lock: invalidate_month for the month the
\* date parses to, set_by_id(meeting), set_upcoming(Vec::new()).
create_meeting(meeting) ==
    /\ Sets("meetings")
    /\ by_month' = WithoutMonthOf(by_month, <<meeting.scheduled_at>>)
    /\ by_id' = Insert(by_id, meeting.id, CacheEntry(meeting, MEETING_TTL))
    /\ upcoming' = <<CacheEntry(<<>>, UPCOMING_TTL)>>
    /\ UNCHANGED <<clientSide, messageVars, presenceVars>>

\* ------------------------------------------------------- MessageCache
Conversations == {"c1", "c2"}

\* supabase MessageRow, as far as the cache looks at it: id and created_at.
MessageRows ==
    {[id |-> "a", created_at |-> "t2"], [id |-> "b", created_at |-> "t1"]}

MessageLists == {<<>>} \cup {<<r>> : r \in MessageRows}

\* The order of Option<&String> on the timestamps in use: None first.
TsRank(ts) == CASE ts = "None" -> 0 [] ts = "t1" -> 1 [] OTHER -> 2

RECURSIVE SortByCreatedAt(_)
\* cache.rs 240-244: sort_by on created_at, a stable sort.
SortByCreatedAt(rows) ==
    IF Len(rows) <= 1 THEN rows
    ELSE LET rest == SortByCreatedAt(Tail(rows))
             x == Head(rows)
             before == SelectSeq(rest, LAMBDA r : TsRank(r.created_at) < TsRank(x.created_at))
             after == SelectSeq(rest, LAMBDA r : TsRank(r.created_at) >= TsRank(x.created_at))
         IN  before \o <<x>> \o after

\* cache.rs 191-196
get_messages(conversation_id) == Fresh_data(Lookup(by_conversation, conversation_id))

\* cache.rs 252-254
get_last_timestamp(conversation_id) == Lookup(last_timestamp, conversation_id)

\* cache.rs 201-206, 221-226: the timestamp of the last message, when it has one.
WithLastTimestamp(lt, conversation_id, messages) ==
    IF messages # <<>> /\ messages[Len(messages)].created_at # "None"
       THEN Insert(lt, conversation_id, messages[Len(messages)].created_at)
       ELSE lt

\* cache.rs 199-212 (get_messages, chat.rs 539-540)
set_messages(conversation_id, messages) ==
    /\ Sets("messages")
    /\ last_timestamp' = WithLastTimestamp(last_timestamp, conversation_id, messages)
    /\ by_conversation' =
           Insert(by_conversation, conversation_id, CacheEntry(messages, MESSAGE_TTL))
    /\ UNCHANGED <<clientSide, meetingVars, presenceVars>>

\* cache.rs 215-249 (chat_send_message, chat.rs 588-589)
append_messages(conversation_id, new_messages) ==
    /\ new_messages # <<>>
    /\ Sets("messages")
    /\ last_timestamp' = WithLastTimestamp(last_timestamp, conversation_id, new_messages)
    /\ IF conversation_id \in DOMAIN by_conversation
          THEN LET entry == by_conversation[conversation_id]
                   existing_ids == {entry.data[i].id : i \in 1..Len(entry.data)}
                   added == SelectSeq(new_messages, LAMBDA r : r.id \notin existing_ids)
               IN  by_conversation' =
                       [by_conversation EXCEPT ![conversation_id] =
                           [@ EXCEPT !.data = SortByCreatedAt(entry.data \o added)]]
          ELSE by_conversation' =
                   Insert(by_conversation, conversation_id,
                          CacheEntry(new_messages, MESSAGE_TTL))
    /\ UNCHANGED <<clientSide, meetingVars, presenceVars>>

\* cache.rs 257-260 (invalidate_conversation_messages, commands/cache.rs 76-85)
invalidate_conversation(conversation_id) ==
    /\ by_conversation' = Remove(by_conversation, conversation_id)
    /\ last_timestamp' = Remove(last_timestamp, conversation_id)
    /\ UNCHANGED <<clientSide, nset, meetingVars, presenceVars, cachePc, written>>

\* ------------------------------------------------ PresenceCache (writes)
\* The member lists get_team_members stores (chat.rs 723-741).
MemberLists ==
    {<<>>, <<PresenceInfo("u7", FALSE)>>,
     <<PresenceInfo("u7", TRUE), PresenceInfo("u8", FALSE)>>}

RECURSIVE SetUsers(_, _)
\* cache.rs 336-338: set_user (cache.rs 319-323) for every member.
SetUsers(bu, members) ==
    IF members = <<>> THEN bu
    ELSE SetUsers(Insert(bu, Head(members).user_id, CacheEntry(Head(members), PRESENCE_TTL)),
                  Tail(members))

\* cache.rs 334-341
set_team_members(members) ==
    /\ Sets("presence")
    /\ by_user' = SetUsers(by_user, members)
    /\ team_members' = <<CacheEntry(members, PRESENCE_TTL)>>
    /\ UNCHANGED <<clientSide, meetingVars, messageVars>>

\* chat_realtime.rs 154-155: the read task applies one presence change under the
\* presence lock (cache.rs 344-357).
realtime_update(user_id, is_online) ==
    LET P == update_from_realtime([by_user |-> by_user, team_members |-> team_members],
                                  user_id, is_online)
    IN  /\ by_user' = P.by_user
        /\ team_members' = P.team_members
        /\ UNCHANGED <<clientSide, nset, meetingVars, messageVars, cachePc, written>>

\* cache.rs 360-363 (invalidate_presence_cache, commands/cache.rs 88-94)
invalidate_presence_cache ==
    /\ by_user' = EmptyMap
    /\ team_members' = <<>>
    /\ UNCHANGED <<clientSide, nset, meetingVars, messageVars, cachePc, written>>

\* ----------------------------------------------------------- AppCache
\* cache.rs 445-449: three write locks, one after the other.
\* cache.rs 446, 140-144
invalidate_all_meetings ==
    /\ cachePc = "idle"
    /\ by_month' = EmptyMap
    /\ by_id' = EmptyMap
    /\ upcoming' = <<>>
    /\ cachePc' = "inv_messages"
    /\ written' = {}
    /\ UNCHANGED <<clientSide, nset, messageVars, presenceVars>>

\* A MessageCache::invalidate_all that forgets to clear the last timestamps.
invalidate_all_messages_keeps_timestamps ==
    /\ cachePc = "inv_messages"
    /\ by_conversation' = EmptyMap
    /\ cachePc' = "inv_presence"
    /\ written' = written \ {"messages"}
    /\ UNCHANGED <<clientSide, nset, meetingVars, last_timestamp, presenceVars>>

\* cache.rs 447, 263-266
invalidate_all_messages ==
    /\ cachePc = "inv_messages"
    /\ by_conversation' = EmptyMap
    /\ last_timestamp' = EmptyMap
    /\ cachePc' = "inv_presence"
    /\ written' = written \ {"messages"}
    /\ UNCHANGED <<clientSide, nset, meetingVars, presenceVars>>

\* cache.rs 448, 360-363: the last store; invalidate_all returns.
invalidate_all_presence ==
    /\ cachePc = "inv_presence"
    /\ by_user' = EmptyMap
    /\ team_members' = <<>>
    /\ cachePc' = "idle"
    /\ written' = written \ {"presence"}
    /\ UNCHANGED <<clientSide, nset, meetingVars, messageVars>>

\* A sweep that also restarts the lifetime of what it keeps.
UnexpiredRefreshed(m) ==
    [x \in {y \in DOMAIN m : ~is_expired(m[y])} |-> [m[x] EXCEPT !.created_at = now]]

\* retain(|_, entry| !entry.is_expired())
Unexpired(m) == Retain(m, LAMBDA e : ~is_expired(e))

\* An Option<CacheEntry> set to None when its entry is expired.
UnexpiredOpt(opt) == IF opt # <<>> /\ is_expired(opt[1]) THEN <<>> ELSE opt

\* cache.rs 439, 147-155
cleanup_meetings ==
    /\ cachePc = "idle"
    /\ by_month' = Unexpired(by_month)
    /\ by_id' = Unexpired(by_id)
    /\ upcoming' = UnexpiredOpt(upcoming)
    /\ cachePc' = "cl_messages"
    /\ UNCHANGED <<clientSide, nset, messageVars, presenceVars, written>>

\* cache.rs 440, 269-271
cleanup_messages ==
    /\ cachePc = "cl_messages"
    /\ by_conversation' = Unexpired(by_conversation)
    /\ cachePc' = "cl_presence"
    /\ UNCHANGED <<clientSide, nset, meetingVars, last_timestamp, presenceVars, written>>

\* cache.rs 441, 366-373
cleanup_presence ==
    /\ cachePc = "cl_presence"
    /\ by_user' = Unexpired(by_user)
    /\ team_members' = UnexpiredOpt(team_members)
    /\ cachePc' = "idle"
    /\ UNCHANGED <<clientSide, nset, meetingVars, messageVars, written>>

\* ------------------------------------------------------ specification
Next ==
    \/ \E t \in Tokens : set_access_token(t)
    \/ join_channel_begin
    \/ \E ok \in BOOLEAN : join_channel_open(ok)
    \/ join_channel_spawn
    \/ join_channel_finish
    \/ connect_signaling_store
    \/ connect_begin
    \/ \E ok \in BOOLEAN : connect_open(ok)
    \/ connect_spawn
    \/ \E g \in Conns, f \in InFrames : signaling_read(g, f)
    \/ \E g \in Conns, f \in InFrames : chat_read(g, f)
    \/ \E g \in Conns : write_wait(g)
    \/ \E g \in Conns : \E ok \in Outcomes(g) : signaling_write_join(g, ok)
    \/ \E g \in Conns : \E ok \in Outcomes(g) : signaling_write_user_joined(g, ok)
    \/ \E g \in Conns : \E ok \in Outcomes(g) : signaling_write_outgoing(g, ok)
    \/ \E g \in Conns : \E ok \in Outcomes(g) : signaling_write_internal(g, ok)
    \/ \E g \in Conns : \E ok \in Outcomes(g) : signaling_write_heartbeat(g, ok)
    \/ \E g \in Conns : \E ok \in Outcomes(g) : chat_write_join(g, ok)
    \/ \E g \in Conns : \E ok \in Outcomes(g) : chat_write_message(g, ok)
    \/ \E g \in Conns : \E ok \in Outcomes(g) : chat_write_heartbeat(g, ok)
    \/ \E g \in Conns : chat_write_check(g)
    \/ send_offer
    \/ broadcast_message
    \/ subscribe_to_conversation
    \/ \E m \in Msgs : send_resume(m)
    \/ \E m \in Msgs : send_closed(m)
    \/ disconnect_signaling
    \/ disconnect
    \/ \E w \in {"disconnect", "read_task"} : inner_write_wait(w)

Spec == Init /\ [][Next]_vars

\* The cache alone, under every call of its operations and the passage of time.
CacheInit == facade = "cache" /\ Fresh

CacheNext ==
    \/ Tick
    \/ \E ym \in Months, l \in MeetingLists :
           (\A i \in 1..Len(l) : ScheduledIn(l[i]) = ym) /\ set_month(ym[1], ym[2], l)
    \/ \E m \in Meetings : set_by_id(m)
    \/ \E l \in MeetingLists : set_upcoming(l)
    \/ \E ym \in Months : invalidate_month(ym[1], ym[2])
    \/ \E m \in Meetings, new \in {<<>>, <<DATE_UTC>>} :
           \E old \in {<<>>, <<m.scheduled_at>>} : update_meeting(m.id, old, new)
    \/ \E c \in Conversations, l \in MessageLists : set_messages(c, l)
    \/ \E c \in Conversations, l \in MessageLists : append_messages(c, l)
    \/ \E c \in Conversations : invalidate_conversation(c)
    \/ \E l \in MemberLists : set_team_members(l)
    \/ \E u \in Users, b \in BOOLEAN : realtime_update(u, b)
    \/ invalidate_presence_cache
    \/ invalidate_all_meetings
    \/ invalidate_all_messages
    \/ invalidate_all_presence
    \/ cleanup_meetings
    \/ cleanup_messages
    \/ cleanup_presence

CacheSpec == CacheInit /\ [][CacheNext]_vars

\* commands/cache.rs 30-32 (and cache.rs 426-428): the store locks in the order
\* get_cache_stats takes their read guards.
StoreLocks == <<"meetings", "messages", "presence">>

\* The read guards the running get_cache_stats holds.
HeldLocks == {StoreLocks[i] : i \in 1..Len(app.held)}

\* commands/cache.rs 30-32: one `read().await` of get_cache_stats; the guard
\* is bound to a local and lives to the end of the command.
get_cache_stats_lock ==
    /\ facade = "app"
    /\ Len(app.held) < Len(StoreLocks)
    /\ app' = [app EXCEPT !.held = Append(@, StoreLocks[Len(@) + 1])]
    /\ UNCHANGED <<facade, codec, write_waiters, signaling_rx, cacheVars, hbVars, emitted,
                   joinedBy, access_token, clientVars, ownerVars, joinVars, taskVars,
                   queueVars, sent, sendVars>>

\* commands/cache.rs 34-44 with cache.rs 157-163: under the three guards
\* MeetingCache::stats reads the by-id map and the snapshot in one critical
\* section; the command returns and its guards are dropped.
meeting_stats ==
    /\ Len(app.held) = Len(StoreLocks)
    /\ app' = [app EXCEPT !.seen = [meetings_cached |-> Cardinality(DOMAIN by_id),
                                    has_upcoming |-> upcoming # <<>>],
                          !.held = <<>>]
    /\ UNCHANGED <<facade, codec, write_waiters, signaling_rx, cacheVars, hbVars, emitted,
                   joinedBy, access_token, clientVars, ownerVars, joinVars, taskVars,
                   queueVars, sent, sendVars>>

\* A command that needs `meetings.write()` waits while a read guard of the
\* meetings store is held.
MeetingsWritable == "meetings" \notin HeldLocks

\* auth.rs 78-94: update_app_state at the end of a successful login stores the
\* user in the application state.
login(user_id) ==
    /\ facade = "app"
    /\ app.user # user_id
    /\ app' = [app EXCEPT !.user = user_id]
    /\ UNCHANGED <<facade, codec, write_waiters, signaling_rx, cacheVars, hbVars, emitted,
                   joinedBy, access_token, clientVars, ownerVars, joinVars, taskVars,
                   queueVars, sent, sendVars>>

\* auth.rs 260-280 with clear_app_state 96-104: the user and the session are
\* cleared; the cache is not touched.
logout ==
    /\ facade = "app"
    /\ app' = [app EXCEPT !.user = "None"]
    /\ UNCHANGED <<facade, codec, write_waiters, signaling_rx, cacheVars, hbVars, emitted,
                   joinedBy, access_token, clientVars, ownerVars, joinVars, taskVars,
                   queueVars, sent, sendVars>>

\* calendar.rs 130-134, 191-195, 236-240, 287-291: a calendar command gives up
\* with "Not authenticated" when no user is logged in.
Authenticated == app.user # "None"

\* The meetings the backend holds for a user: each user has one of their own.
MeetingsOf(user_id) == {m \in Meetings : m.id = (IF user_id = "u7" THEN "m1" ELSE "m2")}

\* What the backend answers a user's get_upcoming_meetings with.
UpcomingOf(user_id) == {<<>>} \cup {<<m>> : m \in MeetingsOf(user_id)}

\* The commands around the cache: the meetings store with its readers.
AppInit == facade = "app" /\ Fresh

AppNext ==
    \/ Tick
    \/ \E u \in Users : login(u)
    \/ logout
    \/ \E m \in MeetingsOf(app.user) : Authenticated /\ MeetingsWritable /\ set_by_id(m)
    \/ \E l \in UpcomingOf(app.user) : Authenticated /\ MeetingsWritable /\ set_upcoming(l)
    \/ \E m \in MeetingsOf(app.user) : Authenticated /\ MeetingsWritable /\ create_meeting(m)
    \/ \E m \in Meetings, new \in {<<>>, <<DATE_UTC>>} :
           \E old \in {<<>>, <<m.scheduled_at>>} :
               Authenticated /\ MeetingsWritable /\ update_meeting(m.id, old, new)
    \/ get_cache_stats_lock
    \/ meeting_stats

AppSpec == AppInit /\ [][AppNext]_vars

\* The wire format alone: every envelope, serialized and parsed.
CodecInit ==
    /\ facade = "codec"
    /\ FreshState
    /\ \E e \in Envelopes : codec = [NoCodec EXCEPT !.pc = "input", !.e = e]

CodecNext == codec_encode \/ codec_relay \/ codec_decode

CodecSpec == CodecInit /\ [][CodecNext]_vars

\* The two clients with their inbound traffic: connect, the read task, the
\* events it emits and the presence store it updates.
InboundInit == facade \in {"session", "presence"} /\ Fresh

InboundNext ==
    \/ Tick
    \/ \E t \in Tokens : set_access_token(t)
    \/ join_channel_begin
    \/ \E ok \in BOOLEAN : join_channel_open(ok)
    \/ join_channel_spawn
    \/ join_channel_finish
    \/ connect_signaling_store
    \/ \E g \in Conns : signaling_forward(g)
    \/ connect_begin
    \/ \E ok \in BOOLEAN : connect_open(ok)
    \/ connect_spawn
    \/ \E g \in Conns, f \in InFrames : signaling_read(g, f)
    \/ \E g \in Conns, f \in InFrames : chat_read(g, f)
    \/ \E l \in MemberLists : facade = "presence" /\ set_team_members(l)
    \/ facade = "presence" /\ invalidate_presence_cache
    \/ disconnect

InboundSpec == InboundInit /\ [][InboundNext]_vars

\* One client whose join_channel (connect) is called twice: two sockets, two
\* read tasks and two write tasks on one shared inner.
RejoinInit == facade \in {"rejoin", "reconnect"} /\ Fresh

RejoinNext ==
    \/ \E t \in Tokens : set_access_token(t)
    \/ join_channel_begin
    \/ \E ok \in BOOLEAN : join_channel_open(ok)
    \/ join_channel_spawn
    \/ join_channel_finish
    \/ connect_begin
    \/ \E ok \in BOOLEAN : connect_open(ok)
    \/ connect_spawn
    \/ \E g \in Conns, f \in InFrames : signaling_read(g, f)
    \/ \E g \in Conns, f \in InFrames : chat_read(g, f)
    \/ \E g \in Conns : write_wait(g)
    \/ \E g \in Conns : \E ok \in Outcomes(g) : signaling_write_join(g, ok)
    \/ \E g \in Conns : \E ok \in Outcomes(g) : signaling_write_user_joined(g, ok)
    \/ \E g \in Conns : \E ok \in Outcomes(g) : signaling_write_heartbeat(g, ok)
    \/ \E g \in Conns : \E ok \in Outcomes(g) : chat_write_join(g, ok)
    \/ \E g \in Conns : \E ok \in Outcomes(g) : chat_write_heartbeat(g, ok)
    \/ \E g \in Conns : chat_write_check(g)

RejoinSpec == RejoinInit /\ [][RejoinNext]_vars

\* ================================================================ claims
Errors == {"AuthError", "NetworkError", "SessionError"}

\* Send m's envelope was put into a queue.
Enqueued(m) ==
    \E g \in Conns : \E i \in 1..Len(enqLog[g]) : enqLog[g][i].payload.n = m

\* The write task attempted to transmit send m's envelope.
Attempted(m) ==
    \E g \in Conns : \E i \in 1..Len(sent[g]) : sent[g][i].env.payload.n = m

\* An envelope that came out of a queue: a send's message or the UserLeft notice.
FromQueue(env) == env.payload.n > 0 \/ env.payload.inner = "user_left"

\* C1: on every connection the first transmit the write task attempts, and the
\* first frame that reaches the wire, is the phx_join envelope for the facade's
\* topic carrying the access token; no queued message and no heartbeat precedes it.
C1_FirstFrameIsJoin ==
    \A g \in Conns :
        /\ sent[g] # <<>> => sent[g][1].env = JoinMsg(ChannelTopic, "t1")
        /\ Wire(g) # <<>> => Wire(g)[1].env = JoinMsg(ChannelTopic, "t1")

\* C1 witness: a message enqueued before the write task had sent the join reached
\* the wire, behind the join.
C1_Witness ==
    \E g \in Conns, m \in Msgs :
        /\ sendAt[m].early
        /\ \E i \in 2..Len(Wire(g)) : Wire(g)[i].env.payload.n = m
        /\ Wire(g)[1].env.event = "phx_join"

C3_SendAfterErrorFails ==
    \A m \in Msgs : sendAt[m].error => sendRes[m] # "Ok" /\ ~Attempted(m)

\* C4 as claimed: a send called after disconnect has returned returns an error,
\* and nothing is enqueued or transmitted for it.
C4_SendAfterDisconnectFails ==
    \A m \in Msgs : sendAt[m].torn => sendRes[m] \in Errors /\ ~Enqueued(m)

\* C5 as claimed: the queued envelopes that reach the wire of a connection are
\* the first ones enqueued on it, in enqueue order.
C5_OutgoingFifo ==
    \A g \in Conns :
        LET out == SelectSeq(Wire(g), LAMBDA a : FromQueue(a.env))
        IN  /\ Len(out) <= Len(enqLog[g])
            /\ \A i \in 1..Len(out) : out[i].env = enqLog[g][i]

\* A step in which join_channel or connect returns AuthError or NetworkError.
ConnectFails ==
    \/ (join_channel_begin \/ connect_begin) /\ joinResult' = "AuthError"
    \/ (join_channel_open(FALSE) \/ connect_open(FALSE)) /\ joinResult' = "NetworkError"

\* C6: a join_channel / connect call that returns AuthError (no token) or
\* NetworkError (the open failed) leaves the connection state, the current
\* channel and the stored sender as they were, starts no task, enqueues nothing
\* and transmits nothing.
C6_FailedConnectChangesNothing ==
    [][ConnectFails => UNCHANGED <<clientVars, ownerVars, taskVars, queueVars, sent>>]_vars

\* C6 witness: a call has returned NetworkError, after the token check passed.
C6_Witness ==
    joinResult = "NetworkError" /\ joinPc = "idle" /\ access_token = "t1"

\* The ok reply that answers the join the write task sent (ref "1" on its topic).
AnswersJoin(e) ==
    e.event = "phx_reply" /\ e.status = "ok" /\ e.topic = ChannelTopic /\ e.ref = "1"

\* C7 as claimed: whenever the signaling state is Joined, the envelope whose
\* processing moved it there is the ok reply to this connection's join.
C7_JoinedOnlyByJoinReply == state = "Joined" => AnswersJoin(joinedBy)

Terminal == {"Error", "Disconnected"}

\* C8 as claimed: once Joined, the state stays Joined until a close frame, a
\* transport error or leave_channel; it never goes back to Connected.
C8_JoinedIsKept == [][state = "Joined" => state' \in {"Joined"} \cup Terminal]_vars

\* C9 as claimed: the state leaves Error / Disconnected only by the state update
\* of a join_channel call; no task and no later step of a running call moves it.
C9_TerminalIsKept ==
    [][(state \in Terminal /\ state' \notin Terminal) => join_channel_spawn]_vars

\* The write task of g has ended because a transmit failed.
StoppedBySendFailure(g) ==
    writerPc[g] = "done" /\ sent[g] # <<>> /\ ~sent[g][Len(sent[g])].ok

\* C10 as claimed: after the write task has stopped on a failed transmit, the
\* shared state does not read Connected or Joined (chat: is_connected is false).
C10_SendFailureFlipsState ==
    \A g \in Conns :
        StoppedBySendFailure(g) =>
            IF facade = "signaling"
               THEN state \notin {"Connected", "Joined"}
               ELSE ~is_connected

\* The read task of g processes the presence_diff / presence_state frame f.
PresenceFrameStep(g, f) ==
    /\ f.ws = "Text" /\ f.decodes
    /\ f.env.event \in {"presence_diff", "presence_state"}
    /\ chat_read(g, f)

\* C11 as claimed: after the chat read task has processed a presence_diff or
\* presence_state frame, get_user returns an online entry for every key of joins
\* and an offline entry for every key of leaves, whatever the cache held before.
C11_PresenceFrameMarksUsers ==
    [][\A g \in Conns, f \in InFrames :
          PresenceFrameStep(g, f) =>
              /\ \A u \in f.env.joins : get_user(u)' # <<>> /\ get_user(u)'[1].is_online
              /\ \A u \in f.env.leaves : get_user(u)' # <<>> /\ ~get_user(u)'[1].is_online
      ]_vars

\* C12: while the write loop runs, once HEARTBEAT_INTERVAL_MS has elapsed since the
\* previous heartbeat the heartbeat branch of the select is ready, whatever
\* messages the loop has transmitted in between.
C12_HeartbeatDueAfterInterval ==
    \A g \in Conns :
        (writerPc[g] = "loop" /\ HeartbeatsSent(g) > 0
                              /\ sinceHb[g] >= HEARTBEAT_INTERVAL_MS)
            => waited[g] >= HEARTBEAT_INTERVAL_MS

\* A text frame the read task has nothing to do with: it does not decode to an
\* envelope, or names an event the task does not know, or is a broadcast whose
\* inner payload has an unknown type or does not decode to a domain message.
DiscardedFrame(f) ==
    /\ f.ws = "Text"
    /\ \/ ~f.decodes
       \/ f.env.event = "other"
       \/ f.env.event = "broadcast" /\ (f.env.inner = "unknown" \/ ~f.env.valid)

ReadStep(g, f) == signaling_read(g, f) \/ chat_read(g, f)

\* C13: a read step on a discarded frame changes neither the connection state nor
\* any cache store, emits nothing, and leaves the read task running.
C13_DiscardedFrameIsNoOp ==
    [][\A g \in Conns, f \in InFrames :
          (DiscardedFrame(f) /\ ReadStep(g, f)) =>
              UNCHANGED <<clientVars, storeVars, emitted, readerPc>>
      ]_vars

\* disconnect_signaling has called leave_channel on the stored client, and it
\* has returned.
LeaveStep == realtime /\ ~realtime'

\* C14: when leave_channel returns the state is Disconnected, the channel is
\* cleared and the sender dropped; with a channel and a sender present exactly one
\* UserLeft broadcast on realtime:session:<channel> is enqueued in the same
\* critical section, unless the receiver is gone, and then nothing is enqueued and
\* the state changes all the same.
C14_LeaveChannel ==
    [][LeaveStep =>
          /\ state' = "Disconnected"
          /\ current_channel' = "None"
          /\ message_tx' = 0
          /\ \A g \in Conns :
                IF current_channel # "None" /\ message_tx = g /\ ~ReceiverDropped(g)
                   THEN /\ Len(enqLog'[g]) = Len(enqLog[g]) + 1
                        /\ SubSeq(enqLog'[g], 1, Len(enqLog[g])) = enqLog[g]
                        /\ LET e == enqLog'[g][Len(enqLog'[g])]
                           IN  /\ e.topic = "realtime:session:" \o current_channel
                               /\ e.event = "broadcast"
                               /\ e.payload.inner = "user_left"
                        /\ internal'[g] = Append(internal[g], enqLog'[g][Len(enqLog'[g])])
                   ELSE enqLog'[g] = enqLog[g] /\ internal'[g] = internal[g]
      ]_vars

\* leave_channel has returned after enqueueing the notification.
C14_Witness ==
    /\ ~realtime /\ nconn > 0
    /\ state = "Disconnected" /\ current_channel = "None" /\ message_tx = 0
    /\ \E g \in Conns : \E i \in 1..Len(enqLog[g]) :
           enqLog[g][i].payload.inner = "user_left"

\* What a get has to return for an optional stored entry: its data while
\* now - created_at <= ttl, nothing otherwise.
Expected(opt) ==
    IF opt # <<>> /\ now - opt[1].created_at <= opt[1].ttl THEN <<opt[1].data>> ELSE <<>>

\* C15: in every reachable state of the cache each get returns the stored data
\* if and only if an entry is stored under the key and is not expired; a get is a
\* function of the stores and changes none of them.
C15_GetIffStoredAndFresh ==
    /\ \A ym \in Months :
           get_month(ym[1], ym[2]) = Expected(Lookup(by_month, MonthKey(ym[1], ym[2])))
    /\ \A m \in Meetings : get_by_id(m.id) = Expected(Lookup(by_id, m.id))
    /\ get_upcoming = Expected(upcoming)
    /\ \A c \in Conversations : get_messages(c) = Expected(Lookup(by_conversation, c))
    /\ \A u \in Users : get_user(u) = Expected(Lookup(by_user, u))
    /\ get_team_members = Expected(team_members)

\* An expired presence entry is still stored and get_user returns nothing, while
\* another get returns its data.
C15_Witness ==
    /\ \E u \in Users :
           u \in DOMAIN by_user /\ now - by_user[u].created_at > by_user[u].ttl
                                /\ get_user(u) = <<>>
    /\ \E c \in Conversations : get_messages(c) # <<>>

\* The lifetime rule on one stored entry with the lifetime ttl of its store.
LivesFor(opt, got, ttl) ==
    opt # <<>> =>
        /\ opt[1].ttl = ttl
        /\ now - opt[1].created_at <= ttl => got = <<opt[1].data>>
        /\ now - opt[1].created_at > ttl => got = <<>>

\* C16: a set stores the new value under the key with the lifetime starting at
\* the set, whatever was stored before; every stored entry carries its store's
\* default TTL (300, 60, 120, 30 s), get returns its data until that TTL has
\* elapsed since created_at and nothing afterwards.
C16_SetRestartsLifetime ==
    [][/\ \A ym \in Months, l \in MeetingLists :
             set_month(ym[1], ym[2], l) =>
                 by_month'[MonthKey(ym[1], ym[2])] = [data |-> l, created_at |-> now, ttl |-> 300]
       /\ \A m \in Meetings :
             set_by_id(m) => by_id'[m.id] = [data |-> m, created_at |-> now, ttl |-> 300]
       /\ \A l \in MeetingLists :
             set_upcoming(l) => upcoming' = <<[data |-> l, created_at |-> now, ttl |-> 60]>>
       /\ \A c \in Conversations, l \in MessageLists :
             set_messages(c, l) =>
                 by_conversation'[c] = [data |-> l, created_at |-> now, ttl |-> 120]
       /\ \A l \in MemberLists :
             set_team_members(l) =>
                 /\ team_members' = <<[data |-> l, created_at |-> now, ttl |-> 30]>>
                 /\ \A i \in 1..Len(l) :
                        by_user'[l[i].user_id] = [data |-> l[i], created_at |-> now, ttl |-> 30]
       /\ \A ym \in Months :
             LivesFor(Lookup(by_month, MonthKey(ym[1], ym[2])), get_month(ym[1], ym[2]), 300)'
       /\ \A m \in Meetings : LivesFor(Lookup(by_id, m.id), get_by_id(m.id), 300)'
       /\ LivesFor(upcoming, get_upcoming, 60)'
       /\ \A c \in Conversations : LivesFor(Lookup(by_conversation, c), get_messages(c), 120)'
       /\ \A u \in Users : LivesFor(Lookup(by_user, u), get_user(u), 30)'
       /\ LivesFor(team_members, get_team_members, 30)'
      ]_vars

\* set_month, then more than 300 s later get_month returns nothing, while an
\* upcoming snapshot set later is returned.
C16_Witness ==
    /\ \E ym \in Months :
           /\ MonthKey(ym[1], ym[2]) \in DOMAIN by_month
           /\ now - by_month[MonthKey(ym[1], ym[2])].created_at > 300
           /\ get_month(ym[1], ym[2]) = <<>>
    /\ upcoming # <<>> /\ upcoming[1].created_at > 0 /\ get_upcoming # <<>>

\* The expiry rule on one stored entry.
ExpiryRule(entry) ==
    LET t == now
        c == entry.created_at
        T == entry.ttl
    IN  /\ t - c <= T => ~is_expired(entry) /\ remaining_ttl(entry) = T - (t - c)
        /\ t - c > T => is_expired(entry) /\ remaining_ttl(entry) = 0
        /\ remaining_ttl(entry) >= 0

\* C20: every stored entry is not expired while now - created_at <= ttl, the
\* instant created_at + ttl included, and expired afterwards; remaining_ttl is
\* ttl - (now - created_at) while not expired, 0 once expired, never negative.
C20_ExpiryBoundary ==
    /\ \A k \in DOMAIN by_month : ExpiryRule(by_month[k])
    /\ \A k \in DOMAIN by_id : ExpiryRule(by_id[k])
    /\ \A k \in DOMAIN upcoming : ExpiryRule(upcoming[k])
    /\ \A k \in DOMAIN by_conversation : ExpiryRule(by_conversation[k])
    /\ \A k \in DOMAIN by_user : ExpiryRule(by_user[k])
    /\ \A k \in DOMAIN team_members : ExpiryRule(team_members[k])

\* An entry at the instant created_at + ttl, and an entry past it.
C20_Witness ==
    /\ \E k \in DOMAIN by_id :
           now - by_id[k].created_at = by_id[k].ttl /\ ~is_expired(by_id[k])
    /\ \E k \in DOMAIN by_user : is_expired(by_user[k]) /\ remaining_ttl(by_user[k]) = 0

\* The ids of the meetings an optional list holds.
IdsIn(got) == IF got = <<>> THEN {} ELSE {got[1][i].id : i \in 1..Len(got[1])}

\* C17: after the cache block of update_meeting has invalidated meeting id, with
\* the meeting's old date known, get_by_id(id) and get_upcoming return nothing,
\* no get_month returns a list holding the meeting, and the by-id entries of the
\* other meetings are unchanged.
C17_NoStaleCopyAfterInvalidate ==
    [][\A m \in Meetings, new \in {<<>>, <<DATE_UTC>>} :
          update_meeting(m.id, <<m.scheduled_at>>, new) =>
              /\ get_by_id(m.id)' = <<>>
              /\ get_upcoming' = <<>>
              /\ \A ym \in Months : m.id \notin IdsIn(get_month(ym[1], ym[2]))'
              /\ \A o \in Meetings \ {m} : Lookup(by_id, o.id)' = Lookup(by_id, o.id)
      ]_vars

\* AppCache::invalidate_all returns: its last store has been cleared.
InvalidateAllReturns == cachePc = "inv_presence" /\ cachePc' = "idle"

MeetingsEmpty == DOMAIN by_month = {} /\ DOMAIN by_id = {} /\ upcoming = <<>>

MessagesEmpty == DOMAIN by_conversation = {} /\ DOMAIN last_timestamp = {}

PresenceEmpty == DOMAIN by_user = {} /\ team_members = <<>>

\* C18 as claimed: when invalidate_all returns every store is empty, whatever
\* set operations ran while it was running.
C18_InvalidateAllEmptiesAll ==
    [][InvalidateAllReturns => (MeetingsEmpty /\ MessagesEmpty /\ PresenceEmpty)']_vars

\* C18: when invalidate_all returns, the presence store is empty, and each of
\* the meeting and message stores is empty unless a set operation wrote to it
\* after invalidate_all had cleared it.
C18_InvalidateAllEmptiesUnwritten ==
    [][InvalidateAllReturns =>
          /\ PresenceEmpty'
          /\ "messages" \notin written' => MessagesEmpty'
          /\ "meetings" \notin written' => MeetingsEmpty'
      ]_vars

\* invalidate_all has returned: the message and presence stores are empty, and
\* the meeting store holds what a set stored after it had been cleared.
C18_Witness ==
    /\ cachePc = "idle" /\ written = {"meetings"} /\ nset = MaxSets
    /\ MessagesEmpty /\ PresenceEmpty /\ ~MeetingsEmpty

\* Map m2 is map m1 without key k, every other key with the entry it had.
OnlyKeyRemoved(m1, m2, k) ==
    /\ DOMAIN m2 = DOMAIN m1 \ {k}
    /\ \A x \in DOMAIN m2 : m2[x] = m1[x]

\* C19: invalidate_month removes the by-month entry of its key and nothing else
\* of the cache; invalidate_conversation removes the messages and the last
\* timestamp of its conversation and nothing else.
C19_SingleKeyInvalidation ==
    [][/\ \A ym \in Months :
             invalidate_month(ym[1], ym[2]) =>
                 /\ OnlyKeyRemoved(by_month, by_month', MonthKey(ym[1], ym[2]))
                 /\ UNCHANGED <<by_id, upcoming, messageVars, presenceVars>>
       /\ \A c \in Conversations :
             invalidate_conversation(c) =>
                 /\ OnlyKeyRemoved(by_conversation, by_conversation', c)
                 /\ OnlyKeyRemoved(last_timestamp, last_timestamp', c)
                 /\ UNCHANGED <<meetingVars, presenceVars>>
      ]_vars

\* Conversation c1 was stored at 0 (the clock has been advanced to the end of
\* its lifetime, 120), c2 was stored at 1, and c1 alone has been invalidated:
\* cleanup removes nothing before 121 and invalidate_all would have taken c2.
C19_Witness ==
    /\ now = 120
    /\ DOMAIN by_conversation = {"c2"} /\ by_conversation["c2"].created_at = 1
    /\ by_conversation["c2"].data # <<>>
    /\ DOMAIN last_timestamp = {"c2"}

\* C21: decoding the encoding of an envelope yields the envelope; the reference
\* travels under the key "ref", and an absent reference is absent again after
\* the round trip, whether the text carries "ref": null or no "ref" at all.
C21_RoundTrip ==
    /\ codec.pc = "encoded" =>
           /\ decode(codec.wire) = <<codec.e>>
           /\ "ref" \in DOMAIN codec.wire /\ "reference" \notin DOMAIN codec.wire
           /\ codec.e.reference # <<>> => codec.wire.ref = JString(codec.e.reference[1])
    /\ codec.pc = "decoded" => codec.out = <<codec.e>>

\* An envelope whose reference is the string "null" has made the round trip and
\* has kept it.
C21_Witness ==
    /\ codec.pc = "decoded"
    /\ codec.e.reference = Some("null")
    /\ codec.out # <<>> /\ codec.out[1].reference = Some("null")

\* The client is marked as not connected: Disconnected or Error for the
\* signaling client, is_connected = false for the chat client.
MarkedDown ==
    IF SignalingClient THEN state \in {"Disconnected", "Error"} ELSE ~is_connected

\* The read task of g takes frame f and exits on it.
ReadExit(g, f) == ReadStep(g, f) /\ readerPc[g] = "running" /\ readerPc'[g] = "done"

\* C22, for a read task that exits on a close frame or a transport error: the
\* step that makes it exit leaves the client marked Disconnected or Error (chat:
\* not connected), and the client stays so marked in every later state; an
\* exited read task takes no further frame.
C22_ExitedReaderLeavesClientDown ==
    [][/\ \A g \in Conns, f \in InFrames :
             (f.ws \in {"Close", "Err"} /\ ReadExit(g, f)) => MarkedDown'
       /\ \A g \in Conns :
             (readerPc[g] = "done" /\ MarkedDown) =>
                 /\ MarkedDown'
                 /\ readerPc'[g] = "done"
                 /\ \A f \in InFrames : ~ReadStep(g, f)
      ]_vars

\* The write task of g, in its loop, transmits a frame.
LoopTransmit(g) == writerPc[g] = "loop" /\ Len(sent'[g]) = Len(sent[g]) + 1

\* C23: once the client is marked as not connected, a frame the write loop
\* still transmits is its last: after it the write task does not enter the
\* select again, and the connected-check that follows ends the task.
C23_WriterStopsOnceMarkedDown ==
    [][\A g \in Conns :
          /\ (MarkedDown /\ LoopTransmit(g)) => writerPc'[g] \in {"check", "done"}
          /\ (MarkedDown /\ writerPc[g] = "check") => writerPc'[g] \in {"check", "done"}
      ]_vars

\* C24: a transmit of the write task that failed is the last transmit the
\* task attempts: every attempt recorded before the newest one succeeded.
C24_NoTransmitAfterFailure ==
    \A g \in Conns : \A i \in 1..Len(sent[g]) :
        i < Len(sent[g]) => sent[g][i].ok

\* disconnect (chat) or disconnect_signaling has returned while the read task of
\* g is still reading: nothing else leaves a running read task with a client
\* that is marked as not connected.
DisconnectReturned(g) ==
    /\ readerPc[g] = "running"
    /\ IF SignalingClient THEN state = "Disconnected" /\ current_channel = "None"
                           ELSE ~is_connected /\ message_tx = 0

\* C25: after disconnect has returned, a frame the read task still handles
\* changes neither the presence store nor the client's state and emits no
\* event to the frontend.
C25_NoEffectAfterDisconnect ==
    [][\A g \in Conns, f \in InFrames :
          (DisconnectReturned(g) /\ ReadStep(g, f)) =>
              UNCHANGED <<state, is_connected, by_user, team_members, emitted>>
      ]_vars

\* A send of the chat client holds the read lock while it waits for room in the
\* queue of g, a writer is queued behind that read guard, and the write task of
\* g, the only one that takes messages out of the queue, is at its
\* connected-check, queued for a read lock behind the writer.
LockCycle(g) ==
    /\ facade = "chat"
    /\ WaitingOn(g) # {}
    /\ Len(QueueOf(g)) = Capacity
    /\ WriterQueued
    /\ writerPc[g] = "check"

\* C26: broadcast_message, a writer waiting for the write lock and the write
\* task never wait for one another in a cycle.
C26_NoLockCycle == \A g \in Conns : ~LockCycle(g)

\* C27: the events emitted so far, followed by the messages the forwarder has
\* yet to receive, are the messages the read task decoded, each once and in
\* order; and the forwarder ends only after the read task has.
C27_ForwarderDeliversAll ==
    \A g \in Conns :
        SignalingClient =>
            /\ emitted \o signaling_rx[g].buf = signaling_rx[g].log
            /\ signaling_rx[g].pc = "done" => readerPc[g] = "done"

\* join_channel (connect) was called again and has spawned the tasks of the
\* second connection.
SecondGeneration == nconn = 2 /\ writerPc[2] # "none"

\* C28: once the second connection has its tasks, no frame handled by the read
\* task of the first changes the state of the client, and the write task of
\* the second ends only on a failed transmit of its own or after its own read
\* task has ended.
C28_OldGenerationIsInert ==
    [][SecondGeneration =>
          /\ \A f \in InFrames : ReadStep(1, f) => UNCHANGED <<state, is_connected>>
          /\ (writerPc[2] # "done" /\ writerPc'[2] = "done") =>
                 (Broken(2)' \/ readerPc[2] = "done")
      ]_vars

\* C29: get_state during join_channel.  While connect_async is in progress the
\* state is Connecting; once both tasks are spawned, which is after the
\* handshake, it is Connecting no more.
C29_StateFollowsHandshake ==
    SignalingClient =>
        /\ joinPc = "opening" => state = "Connecting"
        /\ joinPc = "spawned" => state # "Connecting"

\* The frames the write task of g has handed to the socket so far.
Attempts(g) == {sent[g][i] : i \in 1..Len(sent[g])}

\* C30: the timer of a loop iteration never runs past HEARTBEAT_INTERVAL_MS; when
\* it has run that long with nothing to take from the queues, the frame the
\* write task transmits next is the heartbeat, after which it goes on (in the
\* chat client through its connected check) unless the transmit failed.  A
\* frame is on topic "phoenix" exactly if its event is "heartbeat", and such a
\* frame has an empty payload and no ref.
C30_HeartbeatWhenIdle ==
    [][\A g \in Conns :
          /\ waited[g] <= HEARTBEAT_INTERVAL_MS
          /\ (writerPc[g] = "loop" /\ QueuesEmpty(g)
                 /\ waited[g] = HEARTBEAT_INTERVAL_MS /\ sent'[g] # sent[g]) =>
                 /\ Len(sent'[g]) = Len(sent[g]) + 1
                 /\ sent'[g][Len(sent'[g])].env.event = "heartbeat"
                 /\ writerPc'[g] = IF ~sent'[g][Len(sent'[g])].ok THEN "done"
                                   ELSE IF SignalingWriter THEN "loop" ELSE "check"
          /\ \A a \in Attempts(g) :
                 (a.env.topic = "phoenix" \/ a.env.event = "heartbeat") =>
                     /\ a.env.topic = "phoenix" /\ a.env.event = "heartbeat"
                     /\ a.env.payload = NoPayload /\ a.env.ref = "None"
      ]_vars

\* An idle write loop has sent its heartbeat and is back in the select.
C30_Witness ==
    \E g \in Conns :
        /\ writerPc[g] = "loop" /\ waited[g] = 0
        /\ sent[g] # <<>>
        /\ sent[g][Len(sent[g])].ok
        /\ sent[g][Len(sent[g])].env.event = "heartbeat"
        /\ sent[g][Len(sent[g])].env.topic = "phoenix"

\* C31: a realtime update for a user whose entry is cached and unexpired sets
\* is_online, restarts the entry's lifetime at the current time, keeps user_id,
\* last_seen, status and the ttl, and leaves the entries of the other users as
\* they were.
C31_RealtimeUpdateRefreshes ==
    [][\A u \in Users, b \in BOOLEAN :
          (realtime_update(u, b) /\ get_user(u) # <<>>) =>
              /\ DOMAIN by_user' = DOMAIN by_user
              /\ by_user'[u].data.is_online = b
              /\ by_user'[u].created_at = now
              /\ by_user'[u].ttl = by_user[u].ttl
              /\ by_user'[u].data.user_id = by_user[u].data.user_id
              /\ by_user'[u].data.last_seen = by_user[u].data.last_seen
              /\ by_user'[u].data.status = by_user[u].data.status
              /\ \A v \in DOMAIN by_user \ {u} : by_user'[v] = by_user[v]
      ]_vars

\* u8 is stored only together with u7 and only as offline: u8 online with a
\* later created_at than u7's, which is still 0, was updated by a realtime
\* event while its entry of time 0 was unexpired.
C31_Witness ==
    /\ facade = "cache"
    /\ DOMAIN by_user = {"u7", "u8"}
    /\ by_user["u7"].created_at = 0
    /\ by_user["u8"].created_at > 0 /\ by_user["u8"].created_at <= PRESENCE_TTL
    /\ by_user["u8"].data.is_online
    /\ by_user["u8"].data.status = "away"

\* C32: a realtime update for a user whose stored entry has expired does not
\* make that entry visible again.
C32_ExpiredStaysInvisible ==
    [][\A u \in Users, b \in BOOLEAN :
          (realtime_update(u, b) /\ u \in DOMAIN by_user /\ get_user(u) = <<>>) =>
              get_user(u)' = <<>>
      ]_vars

\* update_meeting's cache block runs for this meeting.
UpdateStep(m) ==
    \E new \in {<<>>, <<DATE_UTC>>} :
        \E old \in {<<>>, <<m.scheduled_at>>} : update_meeting(m.id, old, new)

\* C33: the invalidation of a scheduled item is one critical section: the step
\* that removes the by-id item also clears the upcoming snapshot, so no state
\* has one of them invalidated and the other still stored.
C33_InvalidationIsAtomic ==
    [][\A m \in Meetings :
          UpdateStep(m) => (m.id \notin DOMAIN by_id' /\ upcoming' = <<>>)
      ]_vars

\* C33 as claimed: an invalidation that finds the by-id item and the snapshot
\* stored passes through a state in which exactly one of them is still stored.
C33_InvalidationHasWindow ==
    [][\A m \in Meetings :
          (UpdateStep(m) /\ m.id \in DOMAIN by_id /\ upcoming # <<>>) =>
              ~((m.id \in DOMAIN by_id') <=> (upcoming' # <<>>))
      ]_vars

\* A reader saw one by-id item and the snapshot; both are gone, and the only
\* operation that removes them is update_meeting.
C33_Witness ==
    /\ facade = "app"
    /\ app.seen.meetings_cached = 1 /\ app.seen.has_upcoming
    /\ DOMAIN by_id = {} /\ upcoming = <<>>
    /\ now = 0

\* C34: no operation of the cache holds the lock of more than one store at the
\* same time.
C34_OneStoreLockAtATime == Cardinality(HeldLocks) <= 1

\* The map `after` holds exactly the unexpired entries of `before`, as stored.
KeptExactly(before, after) ==
    /\ DOMAIN after = {k \in DOMAIN before : Elapsed(before[k]) <= before[k].ttl}
    /\ \A k \in DOMAIN after : after[k] = before[k]

\* The same for an optional entry.
KeptExactlyOpt(before, after) ==
    after = IF before # <<>> /\ Elapsed(before[1]) > before[1].ttl THEN <<>> ELSE before

\* C35: cleanup of a store leaves exactly the entries that were unexpired
\* before it, unchanged and with their lifetime not restarted, so that every
\* get of the store answers the same before and after.
C35_CleanupKeepsExactlyUnexpired ==
    [][/\ cleanup_meetings =>
              /\ KeptExactly(by_month, by_month')
              /\ KeptExactly(by_id, by_id')
              /\ KeptExactlyOpt(upcoming, upcoming')
              /\ \A k \in Months : get_month(k[1], k[2])' = get_month(k[1], k[2])
              /\ \A m \in Meetings : get_by_id(m.id)' = get_by_id(m.id)
              /\ get_upcoming' = get_upcoming
       /\ cleanup_messages =>
              /\ KeptExactly(by_conversation, by_conversation')
              /\ \A c \in Conversations : get_messages(c)' = get_messages(c)
       /\ cleanup_presence =>
              /\ KeptExactly(by_user, by_user')
              /\ KeptExactlyOpt(team_members, team_members')
              /\ \A u \in Users : get_user(u)' = get_user(u)
              /\ get_team_members' = get_team_members]_vars

\* The meetings store just swept, two ticks after both were stored at 0: the
\* snapshot (60 s) is gone, the item (300 s) is kept with its creation time.
C35_Witness ==
    /\ facade = "cache"
    /\ cachePc = "cl_messages"
    /\ now = UPCOMING_TTL + 1
    /\ upcoming = <<>>
    /\ \E k \in DOMAIN by_id : by_id[k].created_at = 0 /\ by_id[k].ttl = MEETING_TTL

\* C36: after create_meeting the upcoming snapshot is invalidated: the cache
\* check of the next get_upcoming_meetings (calendar.rs 250-260) is a miss, so
\* the call is not answered from a cached list that lacks the new meeting.
C36_CreateInvalidatesUpcoming ==
    [][\A m \in Meetings : create_meeting(m) => get_upcoming' = <<>>]_vars

\* C37: chat_send_message on a conversation without a cached entry leaves no
\* entry that holds only the message just sent, so a get_messages answered from
\* the cache never lacks the messages the backend held before it.
C37_SendLeavesNoPartialEntry ==
    [][\A c \in Conversations, r \in MessageRows :
          (append_messages(c, <<r>>) /\ c \notin DOMAIN by_conversation) =>
              get_messages(c)' # <<<<r>>>>]_vars

\* C38: cached data does not cross users: what a cache read answers the
\* logged-in user with (get_upcoming_meetings, get_meeting) was not stored
\* while another user was logged in.
C38_NoCrossUserReads ==
    \A u \in Users :
        app.user = u =>
            /\ get_upcoming # <<>> => get_upcoming[1] \in UpcomingOf(u)
            /\ \A m \in Meetings : get_by_id(m.id) # <<>> => m \in MeetingsOf(u)

\* C39: on every connection a broadcast envelope is transmitted on a topic
\* only after a phx_join for that topic was transmitted on that connection.
C39_BroadcastOnlyOnJoinedTopic ==
    \A g \in Conns : \A i \in 1..Len(Wire(g)) :
        Wire(g)[i].env.event = "broadcast" =>
            \E j \in 1..(i - 1) :
                /\ Wire(g)[j].env.event = "phx_join"
                /\ Wire(g)[j].env.topic = Wire(g)[i].env.topic

\* commands/signaling.rs 297-304: the flag of the command-level state.
get_signaling_status == sig_is_connected

\* C40: the status command answers true only while the client's connection
\* is up: once the read task has recorded a close or a transport error in the
\* client state, it answers false.
C40_StatusFollowsConnection ==
    state \in {"Disconnected", "Error"} => ~get_signaling_status

====
